---- MODULE Spec2Model ----
(***************************************************************************)
(* Model of the globalbiodata persistence engine: the generic upsert       *)
(* (insert_into_table, utils_db.py) running against a MySQL-compatible     *)
(* store, and the entity write cascades built on it (Resource.write,       *)
(* Grant.write).                                                           *)
(*                                                                         *)
(* Every cell value is an integer.  Text values (short_name, accession,    *)
(* ext_grant_id, common_name) are numbered; is_latest is MySQL's tinyint   *)
(* 0/1; NULL is -1.                                                        *)
(***************************************************************************)
EXTENDS Integers, Sequences, FiniteSets, TLC

\* ------------------------------------------------------------------ bounds
\* top-level operations started in one behaviour
MaxOps == 2
\* pooled connections of one process's engine
NPool == 2

\* ------------------------------------------------------- program constants
NULL == -1
max_retries == 5
ER_LOCK_DEADLOCK == 1213
ER_LOCK_WAIT_TIMEOUT == 1205
\* MySQL's codes for a duplicate key, a lossy conversion in strict mode, and a
\* lost connection
ER_DUP_ENTRY == 1062
ER_TRUNCATED_WRONG_VALUE == 1292
CR_SERVER_LOST == 2013

\* ------------------------------------------------------------------ schema
TableNames == {"resource", "grant", "resource_grant", "accession"}

table_keys ==
  [resource       |-> [pk |-> <<"id">>, uk |-> <<"short_name", "url_id", "version_id">>],
   grant          |-> [pk |-> <<"id">>, uk |-> <<"ext_grant_id", "grant_agency_id">>],
   resource_grant |-> [pk |-> <<"resource_id", "grant_id">>, uk |-> <<>>],
   accession      |-> [pk |-> <<"accession">>, uk |-> <<>>],
   publication    |-> [pk |-> <<"id">>, uk |-> <<"pubmed_id", "pmc_id">>],
   resource_publication |-> [pk |-> <<"resource_id", "publication_id">>, uk |-> <<>>],
   resource_mention |-> [pk |-> <<"publication_id", "resource_id", "matched_alias">>,
                         uk |-> <<>>],
   version        |-> [pk |-> <<"id">>, uk |-> <<"name", "date">>],
   url            |-> [pk |-> <<"id">>, uk |-> <<"url">>],
   connection_status |-> [pk |-> <<"url_id", "date">>, uk |-> <<>>],
   accession_publication |-> [pk |-> <<"accession", "publication_id">>, uk |-> <<>>]]

\* what db.inspect reports for a table table_keys does not list (long_text):
\* the primary key id and no unique constraint
InspectedKeys == [pk |-> <<"id">>, uk |-> <<>>]

Range(s) == {s[i] : i \in 1..Len(s)}

_get_primary_keys(t) ==
  IF t \in DOMAIN table_keys THEN table_keys[t].pk ELSE InspectedKeys.pk
_get_unique_keys(t) ==
  IF t \in DOMAIN table_keys THEN table_keys[t].uk ELSE InspectedKeys.uk
_get_all_keys(t) == _get_primary_keys(t) \o _get_unique_keys(t)

\* the columns the entity writes supply for each table
Columns(t) ==
  CASE t = "resource"       -> {"id", "short_name", "url_id", "version_id", "common_name", "is_latest"}
    [] t = "grant"          -> {"id", "ext_grant_id", "grant_agency_id"}
    [] t = "resource_grant" -> {"resource_id", "grant_id"}
    [] t = "accession"      -> {"accession", "resource_id", "version_id", "url",
                                "additional_metadata", "prediction_metadata"}
    [] t = "publication"    -> {"id", "title", "pubmed_id", "pmc_id", "authors",
                                "citation_count", "keywords"}
    [] t = "resource_publication" -> {"resource_id", "publication_id"}
    [] t = "long_text"      -> {"id", "text"}
    [] t = "resource_mention" -> {"publication_id", "resource_id", "version_id",
                                  "matched_alias", "match_count", "mean_confidence"}
    [] t = "version"        -> {"id", "name", "date", "user", "additional_metadata"}
    [] t = "url"            -> {"id", "url", "url_country", "url_coordinates", "wayback_url"}
    [] t = "connection_status" -> {"url_id", "status", "date", "is_online", "is_latest"}
    [] t = "accession_publication" -> {"accession", "publication_id"}

\* tables whose id is a store-assigned surrogate key
AutoInc(t) == t \in {"resource", "grant", "publication", "long_text", "version", "url"}

\* texts of the publication columns are numbered by their length: text v is
\* v characters long, 0 is the empty string.  Token(id) is the string
\* f"long_text({id})", 11 characters for a one-digit id
TokenBase == 1000
Token(id) == TokenBase + id
StrLen(v) == IF v >= TokenBase THEN 11 ELSE v

\* CHARACTER_MAXIMUM_LENGTH of the character columns of publication
MaxTitleLen == 15
MaxKeywordsLen == 12

\* _get_max_len: the declared maximum length, None for a column that has
\* none or is no column of the table
_get_max_len(col_name, t) ==
  IF t = "publication" /\ col_name = "title" THEN MaxTitleLen
  ELSE IF t = "publication" /\ col_name = "keywords" THEN MaxKeywordsLen
  ELSE NULL

\* accession strings: AlphaAccession stands for a text such as 'acc1.123',
\* NumAccession for an all-digit accession, whose integer value is itself
AlphaAccessions == {50}
NumAccessions == {7}

\* MySQL's conversion of a stored value to an integer: a text that does not
\* start with digits converts to 0, a number is itself
CastToInteger(t, c, v) ==
  IF t = "accession" /\ c = "accession" /\ v \in AlphaAccessions THEN 0 ELSE v

Min(S) == CHOOSE x \in S : \A y \in S : x <= y

\* ------------------------------------------------------------------- state
Writers == {1, 2}
\* connection <<w, 0>> is the connection writer w's caller opened and passes
\* as conn; <<w, 1>>..<<w, NPool>> are the pooled connections of w's engine
Conns == Writers \X (0..NPool)
PoolConns(w) == {w} \X (1..NPool)
CallerConn(w) == <<w, 0>>

VARIABLES
  db,            \* table name -> sequence of rows (uncommitted changes included)
  nextId,        \* table name -> next AUTO_INCREMENT value
  lastInsertId,  \* connection -> the session's LAST_INSERT_ID()
  inTxn,         \* connection -> conn.in_transaction()
  undo,          \* connection -> undo log of its open transaction
  busy,          \* connections checked out of their pool
  pc,            \* writer -> position
  op,            \* writer -> the entity operation in progress
  call,          \* writer -> the insert_into_table call in progress (or the last one)
  prev,          \* writer -> summary of the call before that
  nOps           \* operations started so far

vars == <<db, nextId, lastInsertId, inTxn, undo, busy, pc, op, call, prev, nOps>>

\* ----------------------------------------------------------- store: keys
KeyMatch(row, new, cols) ==
  /\ Len(cols) > 0
  /\ \A i \in 1..Len(cols) : new[cols[i]] # NULL /\ row[cols[i]] = new[cols[i]]

\* the rows a new row collides with on the primary or the unique key
Conflicts(rows, t, new) ==
  {i \in 1..Len(rows) :
     \/ KeyMatch(rows[i], new, _get_primary_keys(t))
     \/ KeyMatch(rows[i], new, _get_unique_keys(t))}

PkOf(t, row) == [i \in 1..Len(_get_primary_keys(t)) |-> row[_get_primary_keys(t)[i]]]

\* row locks: the rows an open transaction of another connection has written
LockedByOther(c, t, key) ==
  \E c2 \in Conns \ {c} : \E i \in 1..Len(undo[c2]) :
     /\ undo[c2][i].t = t
     /\ \/ undo[c2][i].key = key
        \/ undo[c2][i].had /\ PkOf(t, undo[c2][i].old) = key

\* ---------------------------------------------------- insert_into_table
_remove_key_fields(t, d) ==
  LET keep == {k \in DOMAIN d : k \notin Range(_get_all_keys(t)) /\ d[k] # NULL}
  IN  [k \in keep |-> d[k]]

\* a builder without the IGNORE prefix of line 215
BuildPlainInsert(t, d) ==
  LET data_no_pks == _remove_key_fields(t, d)
      pk_cols == _get_primary_keys(t)
  IN  IF DOMAIN data_no_pks # {}
      THEN [form |-> "upsert", set |-> data_no_pks,
            lid |-> IF Len(pk_cols) = 1 THEN pk_cols[1] ELSE ""]
      ELSE [form |-> "insert", set |-> data_no_pks, lid |-> ""]

\* the statement of lines 201-215: form "upsert" is INSERT .. ON DUPLICATE KEY
\* UPDATE set.., with lid = LAST_INSERT_ID(lid) when lid # ""; form "ignore"
\* is INSERT IGNORE (form "insert" is the plain INSERT)
BuildStatement(t, d) ==
  LET data_no_pks == _remove_key_fields(t, d)
      pk_cols == _get_primary_keys(t)
  IN  IF DOMAIN data_no_pks # {}
      THEN [form |-> "upsert", set |-> data_no_pks,
            lid |-> IF Len(pk_cols) = 1 THEN pk_cols[1] ELSE ""]
      ELSE [form |-> "ignore", set |-> data_no_pks, lid |-> ""]

\* the row INSERT .. VALUES(d) stores: a NULL or missing id is generated
NewRow(t, d, nid) ==
  [c \in Columns(t) |->
     IF c \in DOMAIN d /\ d[c] # NULL THEN d[c]
     ELSE IF AutoInc(t) /\ c = "id" THEN nid ELSE NULL]

\* the row ON DUPLICATE KEY UPDATE leaves in place of old
UpdatedRow(t, old, stmt) ==
  [c \in Columns(t) |->
     IF c \in DOMAIN stmt.set THEN stmt.set[c]
     ELSE IF c = stmt.lid THEN CastToInteger(t, c, old[c])
     ELSE old[c]]

\* MySQL's execution of the statement on connection state lastid.  strict is
\* the server's sql_mode: a lossy text-to-integer conversion is an error in
\* strict mode and a silent truncation otherwise.  err is 0 or the error code.
ExecStatement(rows, t, d, stmt, nid, lastid, strict) ==
  LET new == NewRow(t, d, nid)
      cf == Conflicts(rows, t, new)
      same == [rows |-> rows, rowcount |-> 0, lastrowid |-> 0, lid |-> lastid,
               err |-> 0, key |-> <<>>, had |-> FALSE, old |-> new, used |-> FALSE]
  IN  IF cf = {}
      THEN [same EXCEPT !.rows = Append(rows, new), !.rowcount = 1,
              !.lastrowid = IF AutoInc(t) THEN new.id ELSE 0,
              !.lid = IF AutoInc(t) /\ new.id = nid THEN nid ELSE lastid,
              !.key = PkOf(t, new), !.used = (AutoInc(t) /\ new.id = nid)]
      ELSE LET i == Min(cf)
               old == rows[i]
               upd == UpdatedRow(t, old, stmt)
           IN  IF stmt.form = "ignore" THEN same
               ELSE IF stmt.form = "insert" THEN [same EXCEPT !.err = ER_DUP_ENTRY]
               ELSE IF strict /\ stmt.lid # "" /\ upd[stmt.lid] # old[stmt.lid]
               THEN [same EXCEPT !.err = ER_TRUNCATED_WRONG_VALUE]
               ELSE [same EXCEPT !.rows = [rows EXCEPT ![i] = upd],
                       !.rowcount = IF upd = old THEN 0 ELSE 2,
                       !.lastrowid = IF stmt.lid # "" THEN upd[stmt.lid] ELSE 0,
                       !.lid = IF stmt.lid # "" THEN upd[stmt.lid] ELSE lastid,
                       !.key = PkOf(t, upd), !.had = TRUE, !.old = old]

\* result.inserted_primary_key[0]: the generated id for an AUTO_INCREMENT
\* key, else the first primary-key value of the parameters
InsertedPk(t, d, lastrowid) ==
  IF AutoInc(t)
  THEN IF "id" \in DOMAIN d /\ d["id"] # NULL THEN d["id"] ELSE lastrowid
  ELSE d[_get_primary_keys(t)[1]]

\* Python truthiness of an id
Truthy(v) == v # NULL /\ v # 0

_fetch_id_from_unique_keys(rows, t, d) ==
  LET uniq_col_names == _get_unique_keys(t)
      hit == {i \in 1..Len(rows) : KeyMatch(rows[i], d, uniq_col_names)}
  IN  IF Len(uniq_col_names) = 0 THEN [raise |-> FALSE, id |-> 0]
      ELSE IF hit = {} THEN [raise |-> TRUE, id |-> 0]
      ELSE [raise |-> FALSE, id |-> rows[Min(hit)].id]


\* --------------------------------------------------------- transactions
\* undo-log entry of a statement that wrote the row with primary key res.key
UndoEntry(t, res) == [t |-> t, key |-> res.key, had |-> res.had, old |-> res.old]

RECURSIVE RemoveKey(_, _, _)
RemoveKey(rows, t, key) ==
  IF rows = <<>> THEN <<>>
  ELSE IF PkOf(t, Head(rows)) = key THEN Tail(rows)
  ELSE <<Head(rows)>> \o RemoveKey(Tail(rows), t, key)

\* a deleted row comes back, a replaced row gets its old values, an inserted
\* row goes
UndoOne(tables, e) ==
  [tables EXCEPT ![e.t] =
     IF "gone" \in DOMAIN e
     THEN LET at == IF e.at > Len(@) THEN Len(@) + 1 ELSE e.at
          IN  SubSeq(@, 1, at - 1) \o <<e.old>> \o SubSeq(@, at, Len(@))
     ELSE IF e.had
     THEN [i \in 1..Len(@) |-> IF PkOf(e.t, @[i]) = e.key THEN e.old ELSE @[i]]
     ELSE RemoveKey(@, e.t, e.key)]

\* rollback: undo the log, newest entry first
RECURSIVE RolledBack(_, _)
RolledBack(tables, log) ==
  IF log = <<>> THEN tables
  ELSE RolledBack(UndoOne(tables, log[Len(log)]), SubSeq(log, 1, Len(log) - 1))

\* what the other connections see: the store without the open transactions
Committed ==
  LET cs == {c \in Conns : undo[c] # <<>>}
      F[S \in SUBSET cs] ==
        IF S = {} THEN db
        ELSE LET c == CHOOSE x \in S : TRUE IN RolledBack(F[S \ {c}], undo[c])
  IN  F[cs]

\* ------------------------------------------------------------ the inputs
ShortNames == {1, 2}
VersionIds == {1, 2}
GrantIds == {1, 2}

\* column mappings handed to insert_into_table directly
ResourceData ==
     {[id |-> NULL, short_name |-> 1, url_id |-> 1, version_id |-> v,
       common_name |-> n, is_latest |-> l] :
        v \in VersionIds, n \in {NULL, 1}, l \in {NULL, 1}}
  \cup {[short_name |-> 1, url_id |-> 1, version_id |-> 1, is_latest |-> 0]}

GrantData ==
  {[id |-> NULL, ext_grant_id |-> g, grant_agency_id |-> 1] : g \in GrantIds}

LinkData ==
  {[resource_id |-> r, grant_id |-> g] : r \in {1, 2}, g \in {1}}

AccessionData ==
  {[accession |-> a, resource_id |-> r, version_id |-> 1] :
     a \in AlphaAccessions \cup NumAccessions, r \in {1, 2}}

DataFor(t) ==
  CASE t = "resource"       -> ResourceData
    [] t = "grant"          -> GrantData
    [] t = "resource_grant" -> LinkData
    [] t = "accession"      -> AccessionData

\* what conn.execute can raise for reasons outside the call: a deadlock, a lock
\* wait timeout, a lost connection (all OperationalError), or some other
\* exception (code 0)
ErrCodes == {ER_LOCK_DEADLOCK, ER_LOCK_WAIT_TIMEOUT, CR_SERVER_LOST, 0}
\* SQLAlchemy's CompileError ("Unconsumed column names"): no MySQL code
CompileError == -2
IsOperationalError(code) == code \notin {0, ER_DUP_ENTRY, CompileError}

\* the keys of the mapping that are no column of the table: compiling
\* insert(table).values(data) rejects them
Unconsumed(t, d) == DOMAIN d \ Columns(t)

NoCall ==
  [t |-> "resource", d |-> <<>>, conn |-> <<0, 0>>, conn_created |-> FALSE,
   retry_on_deadlock |-> TRUE, attempts |-> 0, implicit_txn |-> FALSE, trans |-> FALSE,
   inserted_pk |-> NULL, affected_rows |-> 0, this_id |-> NULL, status |-> "none",
   existed |-> FALSE, nExec |-> 0, nFail |-> 0, nRetried |-> 0, nTransient |-> 0,
   lastCode |-> 0, nCommit |-> 0, nRollback |-> 0, entryDb |-> <<>>, entryStore |-> <<>>,
   execDb |-> <<>>, filter_long_data |-> FALSE, given |-> <<>>]

Summary(c) == [t |-> c.t, d |-> c.d, this_id |-> c.this_id, status |-> c.status]

NoResource ==
  [short_name |-> NULL, url_id |-> NULL, version_id |-> NULL, common_name |-> NULL,
   is_latest |-> NULL, grant |-> NULL, grant_id |-> NULL, pub |-> NULL, pub_id |-> NULL]

NoOp ==
  [kind |-> "none", useConn |-> FALSE, r |-> NoResource, phase |-> "none",
   lconn |-> <<0, 0>>, rid |-> NULL, gid |-> NULL, status |-> "none", pid |-> NULL,
   fetched |-> <<>>]

Init ==
  /\ db = [t \in TableNames |-> <<>>]
  /\ nextId = [t \in TableNames |-> 1]
  /\ lastInsertId = [c \in Conns |-> 0]
  /\ inTxn = [c \in Conns |-> FALSE]
  /\ undo = [c \in Conns |-> <<>>]
  /\ busy = {}
  /\ pc = [w \in Writers |-> "idle"]
  /\ op = [w \in Writers |-> NoOp]
  /\ call = [w \in Writers |-> NoCall]
  /\ prev = [w \in Writers |-> Summary(NoCall)]
  /\ nOps = 0

\* ------------------------------------------- insert_into_table, by steps
\* entry of a call (lines 131-160): the arguments
NewCall(t, d, rod) ==
  [NoCall EXCEPT !.t = t, !.d = d, !.retry_on_deadlock = rod, !.status = "run"]

\* a call with filter_long_data set
NewFilterCall(t, d, flag) == [NewCall(t, d, TRUE) EXCEPT !.filter_long_data = flag]

\* the keys of the mapping in the order the loop of line 181 visits them
DataOrder(t) ==
  IF t = "publication"
  THEN <<"id", "title", "pubmed_id", "pmc_id", "authors", "citation_count", "keywords",
         "__conn__", "__engine__">>
  ELSE <<>>

\* line 183: the keys whose value is a non-empty string longer than the
\* column's maximum length
LongCols(t, d) ==
  LET TooLong(k) == /\ k \in DOMAIN d
                    /\ Truthy(d[k])
                    /\ _get_max_len(k, t) # NULL
                    /\ StrLen(d[k]) > _get_max_len(k, t)
  IN  SelectSeq(DataOrder(t), TooLong)

\* lines 184-185 for each overlength key: the nested call inserts the text
\* into long_text on the same connection, and the token replaces the value
RECURSIVE Offloaded(_, _, _, _, _)
Offloaded(cols, d, rows, nid, log) ==
  IF cols = <<>> THEN [d |-> d, rows |-> rows, nid |-> nid, log |-> log]
  ELSE LET row == [id |-> nid, text |-> d[Head(cols)]]
       IN  Offloaded(Tail(cols), [d EXCEPT ![Head(cols)] = Token(nid)], Append(rows, row),
                     nid + 1,
                     Append(log, [t |-> "long_text", key |-> <<nid>>, had |-> FALSE,
                                  old |-> row]))

\* lines 161-185, 187-194: take the caller's connection or open one; the
\* table reflection runs on it and leaves it inside a transaction; with
\* filter_long_data the overlength values move to long_text
Connect(w) ==
  /\ pc[w] = "connect"
  /\ \E c \in (IF op[w].useConn THEN {CallerConn(w)} ELSE PoolConns(w) \ busy) :
       LET cl == call[w]
           long == IF cl.filter_long_data THEN LongCols(cl.t, cl.d) ELSE <<>>
       IN  /\ busy' = busy \cup {c}
           /\ inTxn' = [inTxn EXCEPT ![c] = TRUE]
           /\ IF long = <<>>
              THEN /\ call' = [call EXCEPT ![w].conn = c, ![w].conn_created = ~op[w].useConn,
                                           ![w].entryDb = Committed, ![w].entryStore = db,
                                           ![w].given = cl.d]
                   /\ UNCHANGED <<db, nextId, lastInsertId, undo>>
              ELSE LET off == Offloaded(long, cl.d, db["long_text"], nextId["long_text"], <<>>)
                   IN  /\ call' = [call EXCEPT ![w].conn = c,
                                      ![w].conn_created = ~op[w].useConn,
                                      ![w].entryDb = Committed, ![w].entryStore = db,
                                      ![w].given = cl.d, ![w].d = off.d]
                       /\ db' = [db EXCEPT !["long_text"] = off.rows]
                       /\ nextId' = [nextId EXCEPT !["long_text"] = off.nid]
                       /\ lastInsertId' = [lastInsertId EXCEPT ![c] = off.nid - 1]
                       /\ undo' = [undo EXCEPT ![c] = @ \o off.log]
  /\ pc' = [pc EXCEPT ![w] = "loop"]
  /\ UNCHANGED <<op, prev, nOps>>

\* a call that takes every connection for its own
own_txn_always(c) == TRUE

\* line 190
own_txn(c) == c.conn_created

\* lines 195-199: top of the retry loop
LoopTop(w) ==
  /\ pc[w] = "loop"
  /\ LET c == call[w]
         implicit_txn == inTxn[c.conn]
         trans == own_txn(c) /\ ~implicit_txn
     IN  /\ call' = [call EXCEPT ![w].attempts = @ + 1, ![w].implicit_txn = implicit_txn,
                                  ![w].trans = trans]
         /\ inTxn' = [inTxn EXCEPT ![c.conn] = @ \/ trans]
  /\ pc' = [pc EXCEPT ![w] = "execute"]
  /\ UNCHANGED <<db, nextId, lastInsertId, undo, busy, op, prev, nOps>>

\* whether the except clauses roll back (lines 254-263, 280-289)
RollsBack(c, in_transaction) == c.trans \/ (own_txn(c) /\ in_transaction)

\* the transient lock errors: deadlock and lock wait timeout
TransientCodes == {ER_LOCK_DEADLOCK, ER_LOCK_WAIT_TIMEOUT}

\* the handler with the limit of line 270 off by one
RetriesOneMore(c, code) ==
  /\ IsOperationalError(code)
  /\ ~(~c.conn_created \/ ~c.retry_on_deadlock
        \/ code \notin {ER_LOCK_DEADLOCK, ER_LOCK_WAIT_TIMEOUT})
  /\ ~(c.attempts > max_retries + 1)

\* the handler without the code whitelist of line 266
RetriesAnyCode(c, code) ==
  /\ IsOperationalError(code)
  /\ ~(~c.conn_created \/ ~c.retry_on_deadlock)
  /\ ~(c.attempts > max_retries)

\* whether the OperationalError handler retries (lines 246, 266-277)
Retries(c, code) ==
  /\ IsOperationalError(code)
  /\ ~(~own_txn(c) \/ ~c.retry_on_deadlock
        \/ code \notin {ER_LOCK_DEADLOCK, ER_LOCK_WAIT_TIMEOUT})
  /\ ~(c.attempts > max_retries)

\* the except clauses of lines 246-291 for an exception raised inside the
\* try block: roll back what the call owns, then retry or re-raise
Handle(w, code) ==
  LET c == call[w]
      rb == RollsBack(c, inTxn[c.conn])
      again == Retries(c, code)
  IN  /\ db' = IF rb THEN RolledBack(db, undo[c.conn]) ELSE db
      /\ undo' = IF rb THEN [undo EXCEPT ![c.conn] = <<>>] ELSE undo
      /\ inTxn' = IF rb THEN [inTxn EXCEPT ![c.conn] = FALSE] ELSE inTxn
      /\ call' = [call EXCEPT ![w].nFail = @ + 1,
                               ![w].nExec = IF pc[w] = "execute" THEN @ + 1 ELSE @,
                               ![w].nRollback = IF rb THEN @ + 1 ELSE @,
                               ![w].nTransient = IF code \in TransientCodes THEN @ + 1 ELSE @,
                               ![w].nRetried = IF again THEN @ + 1 ELSE @,
                               ![w].lastCode = code,
                               ![w].status = IF again THEN "run" ELSE "raised"]
      /\ pc' = [pc EXCEPT ![w] = IF again THEN "loop" ELSE "raised"]

\* conn.execute raises for a reason outside the call: the store rejects the
\* statement and nothing is written
ExecuteRaises(w) ==
  /\ pc[w] = "execute"
  /\ \E code \in ErrCodes : Handle(w, code)
  /\ UNCHANGED <<nextId, lastInsertId, busy, op, prev, nOps>>

\* lines 200-215: build and execute the statement
Execute(w) ==
  /\ pc[w] = "execute"
  /\ LET c == call[w]
         t == c.t
         stmt == BuildStatement(t, c.d)
     IN  \E strict \in BOOLEAN :
           LET res == ExecStatement(db[t], t, c.d, stmt, nextId[t], lastInsertId[c.conn], strict)
               cf == Conflicts(db[t], t, NewRow(t, c.d, nextId[t]))
           IN  \* a row another open transaction holds makes the statement wait
               /\ \A i \in cf : ~LockedByOther(c.conn, t, PkOf(t, db[t][i]))
               /\ ~LockedByOther(c.conn, t, PkOf(t, NewRow(t, c.d, nextId[t])))
               /\ IF Unconsumed(t, c.d) # {} \/ res.err # 0
                  THEN /\ Handle(w, IF Unconsumed(t, c.d) # {} THEN CompileError ELSE res.err)
                       /\ UNCHANGED <<nextId, lastInsertId>>
                  ELSE /\ db' = [db EXCEPT ![t] = res.rows]
                       /\ nextId' = [nextId EXCEPT ![t] = IF res.used THEN @ + 1 ELSE @]
                       /\ lastInsertId' = [lastInsertId EXCEPT ![c.conn] = res.lid]
                       /\ undo' = [undo EXCEPT ![c.conn] =
                                     IF res.key = <<>> THEN @ ELSE Append(@, UndoEntry(t, res))]
                       /\ call' = [call EXCEPT ![w].nExec = @ + 1,
                                     ![w].existed = (cf # {}),
                                     ![w].execDb = db,
                                     ![w].inserted_pk = InsertedPk(t, c.d, res.lastrowid),
                                     ![w].affected_rows = res.rowcount]
                       /\ pc' = [pc EXCEPT ![w] = "commit"]
                       /\ UNCHANGED inTxn
  /\ UNCHANGED <<busy, op, prev, nOps>>

\* whether lines 217-221 commit
Commits(c, in_transaction) == c.trans \/ (own_txn(c) /\ c.implicit_txn /\ in_transaction)

\* lines 217-221: commit what the call owns
Commit(w) ==
  /\ pc[w] = "commit"
  /\ LET c == call[w]
         commits == Commits(c, inTxn[c.conn])
     IN  /\ undo' = IF commits THEN [undo EXCEPT ![c.conn] = <<>>] ELSE undo
         /\ inTxn' = IF commits THEN [inTxn EXCEPT ![c.conn] = FALSE] ELSE inTxn
         /\ call' = [call EXCEPT ![w].nCommit = IF commits THEN @ + 1 ELSE @]
  /\ pc' = [pc EXCEPT ![w] = "resolve"]
  /\ UNCHANGED <<db, nextId, lastInsertId, busy, op, prev, nOps>>

\* lines 223-241: the id to return; query tells whether a statement ran
ResolvedId(c, rows, lastid) ==
  IF ~Truthy(c.inserted_pk) \/ (Truthy(c.inserted_pk) /\ c.affected_rows = 0)
  THEN IF Len(_get_primary_keys(c.t)) = 1
       THEN [raise |-> FALSE, id |-> lastid, query |-> TRUE]
       ELSE LET f == _fetch_id_from_unique_keys(rows, c.t, c.d)
            IN  [raise |-> f.raise, id |-> f.id, query |-> Len(_get_unique_keys(c.t)) > 0]
  ELSE [raise |-> FALSE, id |-> c.inserted_pk, query |-> FALSE]

Resolve(w) ==
  /\ pc[w] = "resolve"
  /\ LET c == call[w]
         r == ResolvedId(c, db[c.t], lastInsertId[c.conn])
     IN  IF r.raise
         THEN Handle(w, 0)
         ELSE /\ call' = [call EXCEPT ![w].this_id = r.id]
              \* the SELECT begins a new transaction on the connection
              /\ inTxn' = [inTxn EXCEPT ![c.conn] = @ \/ r.query]
              /\ pc' = [pc EXCEPT ![w] = "close"]
              /\ UNCHANGED <<db, undo>>
  /\ UNCHANGED <<nextId, lastInsertId, busy, op, prev, nOps>>

\* a connection this call opened goes back to the pool: conn.close() on line
\* 298, or the pool's finalizer when the call raised; the pool rolls back
\* whatever is open on it
Released(c) == IF c.conn_created THEN {c.conn} ELSE {}

\* lines 297-300: close and return
Close(w) ==
  /\ pc[w] = "close"
  /\ LET c == call[w]
     IN  /\ busy' = busy \ Released(c)
         /\ inTxn' = IF c.conn_created THEN [inTxn EXCEPT ![c.conn] = FALSE] ELSE inTxn
         /\ call' = [call EXCEPT ![w].status = "ok"]
  /\ pc' = [pc EXCEPT ![w] = "returned"]
  /\ UNCHANGED <<db, nextId, lastInsertId, undo, op, prev, nOps>>

\* ------------------------------------------------- a direct call by a caller
StartInsertWith(w, modes) ==
  /\ pc[w] = "idle"
  /\ nOps < MaxOps
  /\ \E t \in TableNames, useConn \in modes, rod \in BOOLEAN :
       \E d \in DataFor(t) :
         /\ op' = [op EXCEPT ![w] = [NoOp EXCEPT !.kind = "insert", !.useConn = useConn]]
         /\ call' = [call EXCEPT ![w] = NewCall(t, d, rod)]
  /\ pc' = [pc EXCEPT ![w] = "connect"]
  /\ nOps' = nOps + 1
  /\ UNCHANGED <<db, nextId, lastInsertId, inTxn, undo, busy, prev>>

\* insert_into_table(table, data, conn=conn) or (table, data, engine=engine)
StartInsert(w) == StartInsertWith(w, BOOLEAN)

\* insert_into_table(table, data, engine=engine)
StartEngineInsert(w) == StartInsertWith(w, {FALSE})

\* the call returned or raised to the caller of a direct call
EndInsert(w) ==
  /\ pc[w] \in {"returned", "raised"}
  /\ op[w].kind = "insert"
  /\ busy' = busy \ Released(call[w])
  /\ inTxn' = IF call[w].conn_created THEN [inTxn EXCEPT ![call[w].conn] = FALSE] ELSE inTxn
  /\ prev' = [prev EXCEPT ![w] = Summary(call[w])]
  /\ call' = [call EXCEPT ![w] = NoCall]
  /\ op' = [op EXCEPT ![w] = NoOp]
  /\ pc' = [pc EXCEPT ![w] = "idle"]
  /\ UNCHANGED <<db, nextId, lastInsertId, undo, nOps>>

\* the caller commits or rolls back the transaction of its own connection
CallerCommit(w) ==
  /\ pc[w] = "idle"
  /\ inTxn[CallerConn(w)]
  /\ undo' = [undo EXCEPT ![CallerConn(w)] = <<>>]
  /\ inTxn' = [inTxn EXCEPT ![CallerConn(w)] = FALSE]
  /\ UNCHANGED <<db, nextId, lastInsertId, busy, pc, op, call, prev, nOps>>

CallerRollback(w) ==
  /\ pc[w] = "idle"
  /\ inTxn[CallerConn(w)]
  /\ db' = RolledBack(db, undo[CallerConn(w)])
  /\ undo' = [undo EXCEPT ![CallerConn(w)] = <<>>]
  /\ inTxn' = [inTxn EXCEPT ![CallerConn(w)] = FALSE]
  /\ prev' = [prev EXCEPT ![w] = Summary(NoCall)]
  /\ UNCHANGED <<nextId, lastInsertId, busy, pc, op, call, nOps>>

\* ------------------------------------------------------- Resource.write
\* the resources handed to Resource.write: url and version already carry
\* their ids, there is no publication, and at most one grant (by its
\* ext_grant_id; its agency carries its id), which is either new (no id yet)
\* or was fetched from the store and carries its row's id
ResourceInputs ==
  {[NoResource EXCEPT !.short_name = s, !.url_id = 1, !.version_id = v,
                       !.is_latest = l, !.grant = g[1], !.grant_id = g[2]] :
     s \in ShortNames, v \in VersionIds, l \in {0, 1},
     g \in {<<NULL, NULL>>, <<1, NULL>>, <<1, 1>>}}

\* a grant that carries an id is a row of the store, a publication that
\* carries an id a committed one
Fetched(r) ==
  /\ r.grant_id # NULL =>
       \E i \in 1..Len(db["grant"]) :
          db["grant"][i].id = r.grant_id /\ db["grant"][i].ext_grant_id = r.grant
  /\ r.pub_id # NULL =>
       \E i \in 1..Len(Committed["publication"]) :
          /\ Committed["publication"][i].id = r.pub_id
          /\ Committed["publication"][i].title = r.pub

\* resource.py lines 119-123
resource_cols(r) ==
  [id |-> NULL, short_name |-> r.short_name, common_name |-> r.common_name,
   url_id |-> r.url_id, version_id |-> r.version_id, is_latest |-> r.is_latest]

\* grant.py line 55
g_cols(r) == [id |-> r.grant_id, ext_grant_id |-> r.grant, grant_agency_id |-> 1]

\* resource.py line 143
link_cols(rid, gid) == [resource_id |-> rid, grant_id |-> gid]

OpSummary(o) ==
  [t |-> "resource", d |-> resource_cols(o.r), this_id |-> o.rid, status |-> o.status]

StartResourceWith(w, inputs, modes) ==
  /\ pc[w] = "idle"
  /\ nOps < MaxOps
  /\ \E r \in inputs, useConn \in modes :
       /\ Fetched(r)
       /\ op' = [op EXCEPT ![w] = [NoOp EXCEPT !.kind = "resource", !.useConn = useConn,
                                            !.r = r, !.phase = "flip", !.status = "run"]]
  /\ prev' = [prev EXCEPT ![w] = IF op[w].kind = "resource" THEN OpSummary(op[w]) ELSE @]
  /\ pc' = [pc EXCEPT ![w] = "flip"]
  /\ nOps' = nOps + 1
  /\ UNCHANGED <<db, nextId, lastInsertId, inTxn, undo, busy, call>>

\* resource.write(conn=conn, engine=engine) or resource.write(engine=engine)
StartResource(w) == StartResourceWith(w, ResourceInputs, BOOLEAN)

\* resource.write(engine=engine) of a resource without grants
StartEngineResource(w) ==
  StartResourceWith(w, {r \in ResourceInputs : r.grant = NULL}, {FALSE})

\* a flip that clears nothing
FlippedNone(rows, short_name) == rows

\* the rows UPDATE resource SET is_latest = 0 WHERE short_name = .. touches
FlipRows(rows, short_name) == {i \in 1..Len(rows) : rows[i].short_name = short_name}

Flipped(rows, short_name) ==
  [i \in 1..Len(rows) |->
     IF i \in FlipRows(rows, short_name) THEN [rows[i] EXCEPT !.is_latest = 0] ELSE rows[i]]

\* the UPDATE waits while an open transaction of another connection holds one
\* of those rows
FlipBlocked(w) ==
  \E i \in FlipRows(db["resource"], op[w].r.short_name) :
     \A c \in PoolConns(w) : LockedByOther(c, "resource", PkOf("resource", db["resource"][i]))

\* resource.py lines 113-124: with is_latest set, clear the flag of the rows
\* sharing the short_name on a connection of its own and commit; then call
\* insert_into_table for the resource row
FlipLatest(w) ==
  /\ pc[w] = "flip"
  /\ IF Truthy(op[w].r.is_latest)
     THEN /\ ~FlipBlocked(w)
          /\ \E lconn \in PoolConns(w) \ busy :
               /\ busy' = busy \cup {lconn}
               /\ op' = [op EXCEPT ![w].lconn = lconn, ![w].phase = "resource"]
          /\ db' = [db EXCEPT !["resource"] = Flipped(@, op[w].r.short_name)]
     ELSE /\ op' = [op EXCEPT ![w].phase = "resource"]
          /\ UNCHANGED <<db, busy>>
  /\ call' = [call EXCEPT ![w] = NewCall("resource", resource_cols(op[w].r), TRUE)]
  /\ pc' = [pc EXCEPT ![w] = "connect"]
  /\ UNCHANGED <<nextId, lastInsertId, inTxn, undo, prev, nOps>>

\* the end of a Resource.write: its connections go back to the pool
EndResource(w, status, rid) ==
  /\ busy' = (busy \ Released(call[w])) \ {op[w].lconn}
  /\ inTxn' = IF call[w].conn_created THEN [inTxn EXCEPT ![call[w].conn] = FALSE] ELSE inTxn
  /\ op' = [op EXCEPT ![w].status = status, ![w].phase = "none", ![w].lconn = <<0, 0>>,
                        ![w].rid = rid]
  /\ call' = [call EXCEPT ![w] = NoCall]
  /\ pc' = [pc EXCEPT ![w] = "idle"]

\* the flip waits for a row lock until the store gives up (lock wait
\* timeout); the error leaves Resource.write
FlipRaises(w) ==
  /\ pc[w] = "flip"
  /\ Truthy(op[w].r.is_latest)
  /\ FlipBlocked(w)
  /\ EndResource(w, "raised", op[w].rid)
  /\ UNCHANGED <<db, nextId, lastInsertId, undo, prev, nOps>>

\* texts within and beyond the maximum length of their column
ShortText == 5
LongText == 20

\* publication.py lines 98-99: self.__dict__ without grants
self_dict(p) == p @@ [k \in {"__conn__", "__engine__"} |-> NULL]

\* a validation that lets every publication through
InvalidNever(p) == FALSE

\* publication.py line 101
Invalid(p) == ~Truthy(p.title) \/ ~Truthy(p.authors) \/ p.citation_count = NULL

\* the publication of a resource (title pub, id pub_id), as Publication.write
\* sees it
PubOf(r) ==
  [id |-> r.pub_id, title |-> r.pub, pubmed_id |-> 1, pmc_id |-> 1, authors |-> ShortText,
   citation_count |-> 3, keywords |-> ShortText]

\* resource.py line 134
publink_cols(rid, pid) == [resource_id |-> rid, publication_id |-> pid]

\* resource.py lines 125-145 (with publication.py lines 95-104 and grant.py
\* lines 55-58): what follows each insert_into_table of the cascade, the
\* publications first, then the grants
ResourceNext(w) ==
  /\ pc[w] = "returned"
  /\ op[w].kind = "resource"
  /\ LET o == op[w]
         id == call[w].this_id
         begin(c, phase, rid, pid, gid) ==
           /\ op' = [op EXCEPT ![w].rid = rid, ![w].pid = pid, ![w].gid = gid,
                               ![w].phase = phase]
           /\ call' = [call EXCEPT ![w] = c]
           /\ pc' = [pc EXCEPT ![w] = "connect"]
           /\ UNCHANGED <<busy, inTxn>>
         toLink(rid, gid) ==
           begin(NewCall("resource_grant", link_cols(rid, gid), TRUE), "link", rid, o.pid, gid)
         toPubLink(rid, pid) ==
           begin(NewCall("resource_publication", publink_cols(rid, pid), TRUE), "publink",
                 rid, pid, o.gid)
         toGrants(rid) ==
           IF o.r.grant = NULL THEN EndResource(w, "ok", rid)
           ELSE IF ~Truthy(o.r.grant_id)
           THEN begin(NewCall("grant", g_cols(o.r), TRUE), "grant", rid, o.pid, o.gid)
           ELSE toLink(rid, o.r.grant_id)
     IN  CASE o.phase = "resource" /\ o.r.pub = NULL -> toGrants(id)
           [] o.phase = "resource" /\ o.r.pub # NULL /\ ~Truthy(o.r.pub_id) ->
                IF Invalid(PubOf(o.r))
                THEN EndResource(w, "raised", id)
                ELSE begin(NewFilterCall("publication", self_dict(PubOf(o.r)), TRUE),
                           "publication", id, o.pid, o.gid)
           [] o.phase = "resource" /\ o.r.pub # NULL /\ Truthy(o.r.pub_id) ->
                toPubLink(id, o.r.pub_id)
           [] o.phase = "publication" -> toPubLink(o.rid, id)
           [] o.phase = "publink" -> toGrants(o.rid)
           [] o.phase = "grant" -> toLink(o.rid, id)
           [] o.phase = "link" -> EndResource(w, "ok", o.rid)
  /\ UNCHANGED <<db, nextId, lastInsertId, undo, prev, nOps>>

\* an insert_into_table of the cascade raised: the error leaves Resource.write
ResourceRaised(w) ==
  /\ pc[w] = "raised"
  /\ op[w].kind = "resource"
  /\ EndResource(w, "raised", op[w].rid)
  /\ UNCHANGED <<db, nextId, lastInsertId, undo, prev, nOps>>

\* ---------------------------------------------- the whole store, empty
StoreTables ==
  TableNames \cup {"publication", "resource_publication", "long_text", "resource_mention",
                   "accession_publication", "url", "connection_status", "version",
                   "grant_agency", "publication_grant"}

InitStore ==
  /\ db = [t \in StoreTables |-> <<>>]
  /\ nextId = [t \in StoreTables |-> 1]
  /\ lastInsertId = [c \in Conns |-> 0]
  /\ inTxn = [c \in Conns |-> FALSE]
  /\ undo = [c \in Conns |-> <<>>]
  /\ busy = {}
  /\ pc = [w \in Writers |-> "idle"]
  /\ op = [w \in Writers |-> NoOp]
  /\ call = [w \in Writers |-> NoCall]
  /\ prev = [w \in Writers |-> Summary(NoCall)]
  /\ nOps = 0

\* ------------------------------------- insert_into_table with offloading
\* publication mappings handed to insert_into_table directly
PublicationData ==
  {[id |-> NULL, title |-> ti, pubmed_id |-> pm, pmc_id |-> 1, authors |-> ShortText,
    citation_count |-> 3, keywords |-> k] :
     ti \in {ShortText, LongText}, pm \in {1}, k \in {NULL, ShortText, LongText}}

\* insert_into_table('publication', data, filter_long_data=flag), on the
\* caller's connection or through the engine
StartFilterInsert(w) ==
  /\ pc[w] = "idle"
  /\ nOps < MaxOps
  /\ \E d \in PublicationData, useConn \in BOOLEAN, flag \in BOOLEAN :
       /\ op' = [op EXCEPT ![w] = [NoOp EXCEPT !.kind = "insert", !.useConn = useConn]]
       /\ call' = [call EXCEPT ![w] = NewFilterCall("publication", d, flag)]
  /\ pc' = [pc EXCEPT ![w] = "connect"]
  /\ nOps' = nOps + 1
  /\ UNCHANGED <<db, nextId, lastInsertId, inTxn, undo, busy, prev>>

\* -------------------------------------------------------- Version.write
\* the versions handed to Version.write: names, dates, users and metadata
\* are numbered; a Version built from a pipeline run has no id
Versions ==
  [id : {NULL}, name : {1}, date : {1, 2}, user : {1, 2}, additional_metadata : {NULL, 1}]

\* version.py lines 42-55: insert_into_table('version', self.__dict__)
StartVersion(w) ==
  /\ pc[w] = "idle"
  /\ nOps < MaxOps
  /\ \E v \in Versions, useConn \in BOOLEAN :
       /\ op' = [op EXCEPT ![w] = [NoOp EXCEPT !.kind = "insert", !.useConn = useConn]]
       /\ call' = [call EXCEPT ![w] = NewCall("version", v, TRUE)]
  /\ pc' = [pc EXCEPT ![w] = "connect"]
  /\ nOps' = nOps + 1
  /\ UNCHANGED <<db, nextId, lastInsertId, inTxn, undo, busy, prev>>

\* ---------------------------------------------------- Publication.write
\* the publications handed to Publication.write, without grants; a text 0
\* is the empty string
Publications ==
  {[id |-> NULL, title |-> ti, pubmed_id |-> 1, pmc_id |-> 1, authors |-> a,
    citation_count |-> cc, keywords |-> k] :
     ti \in {NULL, 0, ShortText}, a \in {NULL, 0, ShortText}, cc \in {NULL, 0, 3},
     k \in {LongText}}

\* publication.py lines 83-104: validate, then call insert_into_table
StartPublication(w) ==
  /\ pc[w] = "idle"
  /\ nOps < MaxOps
  /\ \E p \in Publications, useConn \in BOOLEAN :
       IF Invalid(p)
       THEN /\ op' = [op EXCEPT ![w] = [NoOp EXCEPT !.kind = "publication",
                                          !.useConn = useConn, !.r = p,
                                          !.status = "invalid"]]
            /\ call' = [call EXCEPT ![w] = NoCall]
            /\ UNCHANGED pc
       ELSE /\ op' = [op EXCEPT ![w] = [NoOp EXCEPT !.kind = "publication",
                                          !.useConn = useConn, !.r = p, !.status = "run"]]
            /\ call' = [call EXCEPT ![w] = NewFilterCall("publication", self_dict(p), TRUE)]
            /\ pc' = [pc EXCEPT ![w] = "connect"]
  /\ nOps' = nOps + 1
  /\ UNCHANGED <<db, nextId, lastInsertId, inTxn, undo, busy, prev>>

\* publication.py lines 105-117, or the error of insert_into_table leaving
\* Publication.write: there are no grants to write
EndPublication(w) ==
  /\ pc[w] \in {"returned", "raised"}
  /\ op[w].kind = "publication"
  /\ busy' = busy \ Released(call[w])
  /\ inTxn' = IF call[w].conn_created THEN [inTxn EXCEPT ![call[w].conn] = FALSE] ELSE inTxn
  /\ op' = [op EXCEPT ![w].status = IF pc[w] = "returned" THEN "ok" ELSE "raised",
                        ![w].rid = call[w].this_id]
  /\ prev' = [prev EXCEPT ![w] = Summary(call[w])]
  /\ pc' = [pc EXCEPT ![w] = "idle"]
  /\ UNCHANGED <<db, nextId, lastInsertId, undo, call, nOps>>

\* ------------------------------------------------------ select and fetch
\* utils_db.py lines 400-409: the WHERE clause.  A query maps a column to
\* the set of the values it may take: {v} for column == v, the members of
\* the list for column IN (list)
Wheres(row, data) == \A c \in DOMAIN data : row[c] \in data[c]

\* ORDER BY the columns of order_by, ascending, NULL first; rows that tie
\* keep the order of the table
RECURSIVE Before(_, _, _)
Before(a, b, order_by) ==
  IF order_by = <<>> THEN FALSE
  ELSE LET c == Head(order_by)
       IN  a[c] < b[c] \/ (a[c] = b[c] /\ Before(a, b, Tail(order_by)))

RECURSIVE Placed(_, _, _)
Placed(row, sorted, order_by) ==
  IF sorted = <<>> THEN <<row>>
  ELSE IF Before(row, Head(sorted), order_by) THEN <<row>> \o sorted
  ELSE <<Head(sorted)>> \o Placed(row, Tail(sorted), order_by)

RECURSIVE Ordered(_, _)
Ordered(rows, order_by) ==
  IF rows = <<>> THEN <<>>
  ELSE Placed(rows[Len(rows)], Ordered(SubSeq(rows, 1, Len(rows) - 1), order_by), order_by)

\* utils_db.py lines 356-426
select_from_table(rows, data, order_by) ==
  LET Test(row) == Wheres(row, data)
  IN  Ordered(SelectSeq(rows, Test), order_by)

\* the return statement the fetchers share: None, the one object, or the list
OneOrList(objs) ==
  [shape |-> IF Len(objs) = 0 THEN "None" ELSE IF Len(objs) = 1 THEN "one" ELSE "list",
   objs |-> objs]

\* the values of one column of a sequence of rows, as a sequence and as a set
Column(rows, c) == [i \in 1..Len(rows) |-> rows[i][c]]
Values(rows, c) == {rows[i][c] : i \in 1..Len(rows)}

\* utils_fetch.py lines 46-53: the publications and the grants of a resource
\* fetched with expanded=True, by title and by ext_grant_id.  A lone result
\* is wrapped in a list, and so is the None of fetch_publication (listed
\* here as NULL); the None of fetch_grant becomes the empty list of
\* resource.py line 73
fetch_resource(store, id) ==
  LET pub_ids == select_from_table(store["resource_publication"],
                                   [resource_id |-> {id}], <<>>)
      publications == OneOrList(select_from_table(
                        store["publication"], [id |-> Values(pub_ids, "publication_id")],
                        <<"id">>))
      grant_ids == select_from_table(store["resource_grant"], [resource_id |-> {id}], <<>>)
      grants == OneOrList(select_from_table(
                  store["grant"], [id |-> Values(grant_ids, "grant_id")], <<"id">>))
  IN  [found |-> select_from_table(store["resource"], [id |-> {id}], <<"id">>) # <<>>,
       publications |-> IF publications.shape = "None" THEN <<NULL>>
                        ELSE Column(publications.objs, "title"),
       grants |-> Column(grants.objs, "ext_grant_id")]

\* Resource.fetch_by_id(id, expanded=True) with the id that Resource.write
\* returned, through the connection or the engine the write went through
FetchResource(w) ==
  /\ pc[w] = "idle"
  /\ op[w].kind = "resource"
  /\ op[w].status = "ok"
  /\ op[w].phase = "none"
  /\ op' = [op EXCEPT ![w].phase = "fetched",
                      ![w].fetched = fetch_resource(IF op[w].useConn THEN db ELSE Committed,
                                                    op[w].rid)]
  /\ UNCHANGED <<db, nextId, lastInsertId, inTxn, undo, busy, pc, call, prev, nOps>>

\* resources that carry one publication and one grant, each new or fetched
RoundTripInputs ==
  {[NoResource EXCEPT !.short_name = 1, !.url_id = 1, !.version_id = 1, !.is_latest = l,
                       !.grant = 1, !.grant_id = g, !.pub = ShortText, !.pub_id = p] :
     l \in {0, 1}, g \in {NULL, 1}, p \in {NULL, 1}}

StartRoundTrip(w) == StartResourceWith(w, RoundTripInputs, BOOLEAN)

\* resources that carry a publication or none, and a grant or none
ListedInputs ==
  {[NoResource EXCEPT !.short_name = 1, !.url_id = 1, !.version_id = 1, !.is_latest = 1,
                       !.grant = g[1], !.grant_id = g[2], !.pub = p[1], !.pub_id = p[2]] :
     g \in {<<NULL, NULL>>, <<1, NULL>>, <<1, 1>>},
     p \in {<<NULL, NULL>>, <<ShortText, NULL>>, <<ShortText, 1>>}}

StartListed(w) == StartResourceWith(w, ListedInputs, BOOLEAN)

\* ------------------------------------------------------ resource mentions
\* confidences are counted in hundredths: 90 is 0.9
Confidences == {90, 100}
MatchCounts == {1, 2}
Aliases == {1, 2}

MatchedAliases ==
  {m \in [matched_alias : Aliases, match_count : MatchCounts, mean_confidence : Confidences] :
     m.matched_alias = 1 => m.mean_confidence = 90}

\* mentions whose publication, resource and version carry their ids, with
\* one or two distinct matched aliases
Mentions ==
  {[publication_id |-> 1, resource_id |-> 1, version_id |-> v, matched_aliases |-> ms] :
     v \in VersionIds,
     ms \in {<<m>> : m \in MatchedAliases}
            \cup {<<m1, m2>> : m1 \in {m \in MatchedAliases : m.matched_alias = 1},
                               m2 \in {m \in MatchedAliases : m.matched_alias = 2}}}

\* a loop that writes the first matched alias on every turn
first_alias_cols(m, i) ==
  [publication_id |-> m.publication_id, resource_id |-> m.resource_id,
   version_id |-> m.version_id, matched_alias |-> m.matched_aliases[1].matched_alias,
   match_count |-> m.matched_aliases[1].match_count,
   mean_confidence |-> m.matched_aliases[1].mean_confidence]

\* resource_mention.py lines 87-94
mention_cols(m, i) ==
  [publication_id |-> m.publication_id, resource_id |-> m.resource_id,
   version_id |-> m.version_id, matched_alias |-> m.matched_aliases[i].matched_alias,
   match_count |-> m.matched_aliases[i].match_count,
   mean_confidence |-> m.matched_aliases[i].mean_confidence]

\* the rows of a publication and a resource
MentionRows(rows, m) ==
  select_from_table(rows, [publication_id |-> {m.publication_id},
                           resource_id |-> {m.resource_id}], <<>>)

\* resource_mention.py lines 64-95: the publication, the resource and the
\* version have ids, so the loop over the matched aliases is all there is
StartMention(w) ==
  /\ pc[w] = "idle"
  /\ nOps < MaxOps
  /\ \E m \in Mentions, useConn \in BOOLEAN :
       /\ op' = [op EXCEPT ![w] =
                   [NoOp EXCEPT !.kind = "mention", !.useConn = useConn, !.status = "run",
                                !.pid = 1,
                                !.r = m @@ [before |->
                                              MentionRows(db["resource_mention"], m)]]]
       /\ call' = [call EXCEPT ![w] = NewCall("resource_mention", mention_cols(m, 1), TRUE)]
  /\ pc' = [pc EXCEPT ![w] = "connect"]
  /\ nOps' = nOps + 1
  /\ UNCHANGED <<db, nextId, lastInsertId, inTxn, undo, busy, prev>>

\* the next matched alias of the loop, or the end of ResourceMention.write
MentionNext(w) ==
  /\ pc[w] = "returned"
  /\ op[w].kind = "mention"
  /\ IF op[w].pid < Len(op[w].r.matched_aliases)
     THEN /\ op' = [op EXCEPT ![w].pid = @ + 1]
          /\ call' = [call EXCEPT ![w] = NewCall("resource_mention",
                                                 mention_cols(op[w].r, op[w].pid + 1), TRUE)]
          /\ pc' = [pc EXCEPT ![w] = "connect"]
          /\ UNCHANGED <<busy, inTxn>>
     ELSE EndResource(w, "ok", NULL)
  /\ UNCHANGED <<db, nextId, lastInsertId, undo, prev, nOps>>

\* an insert_into_table of the loop raised: the error leaves the write
MentionRaised(w) ==
  /\ pc[w] = "raised"
  /\ op[w].kind = "mention"
  /\ EndResource(w, "raised", NULL)
  /\ UNCHANGED <<db, nextId, lastInsertId, undo, prev, nOps>>

RECURSIVE Sum(_, _)
Sum(objs, field) ==
  IF objs = <<>> THEN 0 ELSE objs[1][field] + Sum(Tail(objs), field)

\* a list left in the order the rows came
Unreversed(seq) == seq

\* seq[::-1]
Reverse(seq) == [i \in 1..Len(seq) |-> seq[Len(seq) + 1 - i]]

\* a mean weighted by the match counts
WeightedMean(matched_aliases) ==
  LET weighted == [i \in 1..Len(matched_aliases) |->
                     [v |-> matched_aliases[i].match_count
                            * matched_aliases[i].mean_confidence]]
  IN  [sum |-> Sum(weighted, "v"), n |-> Sum(matched_aliases, "match_count")]

\* utils_fetch.py lines 440-447: the quotient this_group_conf_sum /
\* this_group_conf_n, kept as its two terms
GroupMean(matched_aliases) ==
  [sum |-> Sum(matched_aliases, "mean_confidence"), n |-> Len(matched_aliases)]

\* utils_fetch.py lines 414-479: None, or the mentions of the groups; the
\* list is built by iterating over a set of keys, so its order is no
\* function of the rows and the mentions are kept as a set
fetch_resource_mention(store, query) ==
  LET mention_raw == select_from_table(store["resource_mention"], query,
                                       <<"publication_id", "resource_id", "match_count">>)
      group_order == {<<mention_raw[i].publication_id, mention_raw[i].resource_id,
                        mention_raw[i].version_id>> : i \in 1..Len(mention_raw)}
      InGroup(key) ==
        LET Test(m) == <<m.publication_id, m.resource_id, m.version_id>> = key
        IN  SelectSeq(mention_raw, Test)
      matched_aliases(key) ==
        [i \in 1..Len(InGroup(key)) |->
           [matched_alias |-> InGroup(key)[i].matched_alias,
            match_count |-> InGroup(key)[i].match_count,
            mean_confidence |-> InGroup(key)[i].mean_confidence]]
  IN  [shape |-> IF Len(mention_raw) = 0 THEN "None" ELSE "list",
       objs |-> {[publication_id |-> key[1], resource_id |-> key[2], version_id |-> key[3],
                  matched_aliases |-> Reverse(matched_aliases(key)),
                  match_count |-> Sum(matched_aliases(key), "match_count"),
                  mean_confidence |-> GroupMean(matched_aliases(key))] :
                 key \in group_order}]

\* the queries of the fetches: by publication and resource, by resource, by
\* version, by alias
MentionQueries(m) ==
  {[publication_id |-> {m.publication_id}, resource_id |-> {m.resource_id}],
   [resource_id |-> {m.resource_id}],
   [version_id |-> {m.version_id}],
   [matched_alias |-> {m.matched_aliases[1].matched_alias}]}

\* fetch_resource_mention after a write, through the connection or the
\* engine the write went through
FetchMention(w) ==
  /\ pc[w] = "idle"
  /\ op[w].kind = "mention"
  /\ op[w].status = "ok"
  /\ op[w].phase = "none"
  /\ \E query \in MentionQueries(op[w].r) :
       LET store == IF op[w].useConn THEN db ELSE Committed
       IN  op' = [op EXCEPT ![w].phase = "fetched",
                            ![w].fetched =
                               [query |-> query, rows |-> store["resource_mention"]]
                               @@ fetch_resource_mention(store, query)]
  /\ UNCHANGED <<db, nextId, lastInsertId, inTxn, undo, busy, pc, call, prev, nOps>>

\* ------------------------------------------------------------ accessions
\* the sequences that list every member of a set once
SeqsOf(S) ==
  {q \in [1..Cardinality(S) -> S] : \A i, j \in 1..Cardinality(S) : q[i] = q[j] => i = j}

\* accession strings are numbered in their sort order; the publication ids
\* are those of the test database
AccessionStrings == {1, 2}
PublicationIds == {432, 789}

\* the rows of table accession as fetch_accession reads them (lines 376-380)
AccessionRows ==
  [accession : AccessionStrings, resource_id : {1, 2}, version_id : {1}, url : {NULL},
   prediction_metadata : {NULL}]

StoredPublications ==
  [i \in 1..2 |->
     [id |-> IF i = 1 THEN 432 ELSE 789, title |-> ShortText, pubmed_id |-> i, pmc_id |-> i,
      authors |-> ShortText, citation_count |-> 3, keywords |-> NULL]]

\* stores with accessions, publications and links between them; a link
\* refers to a stored accession and a stored publication, and a key is
\* stored once
InitAccessions ==
  /\ \E A \in SUBSET AccessionRows, L \in SUBSET (AccessionStrings \X PublicationIds) :
       /\ \A a, b \in A : a.accession = b.accession => a = b
       /\ \A l \in L : \E a \in A : a.accession = l[1]
       /\ \E accessions \in SeqsOf(A), links \in SeqsOf(L) :
            db = [t \in StoreTables |->
                    CASE t = "accession" -> accessions
                      [] t = "publication" -> StoredPublications
                      [] t = "accession_publication" ->
                           [i \in 1..Len(links) |->
                              [accession |-> links[i][1], publication_id |-> links[i][2]]]
                      [] OTHER -> <<>>]
  /\ nextId = [t \in StoreTables |-> 1]
  /\ lastInsertId = [c \in Conns |-> 0]
  /\ inTxn = [c \in Conns |-> FALSE]
  /\ undo = [c \in Conns |-> <<>>]
  /\ busy = {}
  /\ pc = [w \in Writers |-> "idle"]
  /\ op = [w \in Writers |-> NoOp]
  /\ call = [w \in Writers |-> NoCall]
  /\ prev = [w \in Writers |-> Summary(NoCall)]
  /\ nOps = 0

\* utils_db.py lines 391-393 and utils_fetch.py lines 362-366: the rows of
\* accession JOIN accession_publication, the table prefixes of the column
\* names removed
Joined(accessions, links) ==
  LET Linked(l) == \E i \in 1..Len(accessions) : accessions[i].accession = l.accession
      Of(l) == accessions[CHOOSE i \in 1..Len(accessions) :
                             accessions[i].accession = l.accession]
      kept == SelectSeq(links, Linked)
  IN  [i \in 1..Len(kept) |-> Of(kept[i]) @@ [publication_id |-> kept[i].publication_id]]

\* utils_fetch.py line 358: the entries of the query that are not None
formatted_query(query) ==
  [k \in {c \in DOMAIN query : query[c] # {NULL}} |-> query[k]]

\* the members of a set of numbers in the order they were met in rows
RECURSIVE InRowOrder(_, _)
InRowOrder(rows, c) ==
  IF rows = <<>> THEN <<>>
  ELSE LET rest == InRowOrder(SubSeq(rows, 1, Len(rows) - 1), c)
           last == rows[Len(rows)][c]
       IN  IF last \in Range(rest) THEN rest ELSE Append(rest, last)

\* the group keys in the order the rows came
unsorted_accessions(rows) == InRowOrder(rows, "accession")

\* utils_fetch.py line 384: sorted(grouped_accessions.keys())
sorted_accessions(rows) ==
  LET keys == InRowOrder(rows, "accession")
  IN  Column(Ordered([i \in 1..Len(keys) |-> [accession |-> keys[i]]], <<"accession">>),
             "accession")

\* utils_fetch.py lines 341-397: None, or the list of the accessions, one
\* for each accession string of the selected rows, with the ids of its
\* publications as fetch_publication returns them (ordered by id; a lone
\* publication or None wrapped in a list)
fetch_accession(store, query) ==
  LET accession_results ==
        select_from_table(Joined(store["accession"], store["accession_publication"]),
                          formatted_query(query), <<"resource_id", "accession">>)
      group(a) == LET Test(row) == row.accession = a
                  IN  SelectSeq(accession_results, Test)
      publications(a) ==
        OneOrList(select_from_table(store["publication"],
                                    [id |-> Values(group(a), "publication_id")], <<"id">>))
      keys == sorted_accessions(accession_results)
  IN  [shape |-> IF Len(accession_results) = 0 THEN "None" ELSE "list",
       rows |-> accession_results,
       objs |-> [i \in 1..Len(keys) |->
                   [accession |-> keys[i],
                    resource_id |-> group(keys[i])[1].resource_id,
                    version_id |-> group(keys[i])[1].version_id,
                    publications |-> IF publications(keys[i]).shape = "None" THEN <<NULL>>
                                     ELSE Column(publications(keys[i]).objs, "id")]]]

\* the queries: by accession string, by resource, by publication, by
\* resource with a publication that is None, and the empty query
AccessionQueries ==
  {[k \in {} |-> {}]}
  \cup {[accession |-> {a}] : a \in AccessionStrings}
  \cup {[resource_id |-> {r}] : r \in {1, 2}}
  \cup {[publication_id |-> {p}] : p \in PublicationIds}
  \cup {[resource_id |-> {1}, publication_id |-> {NULL}]}

FetchAccession(w) ==
  /\ pc[w] = "idle"
  /\ nOps < MaxOps
  /\ \E query \in AccessionQueries :
       op' = [op EXCEPT ![w] = [NoOp EXCEPT !.kind = "accession", !.phase = "fetched",
                                            !.status = "ok",
                                            !.fetched = [query |-> query]
                                                        @@ fetch_accession(db, query)]]
  /\ nOps' = nOps + 1
  /\ UNCHANGED <<db, nextId, lastInsertId, inTxn, undo, busy, pc, call, prev>>

\* ------------------------------------------------------- Accession.write
\* the accessions handed to Accession.write: the resource, the version and
\* the publications have ids, so nothing but the accession row and its
\* links is written; urls and metadata are numbered
AccessionInputs ==
  [accession : AlphaAccessions \cup NumAccessions, resource_id : {1}, version_id : {1},
   url : {NULL, 1}, additional_metadata : {NULL, 1},
   publications : {<<432>>, <<432, 789>>}]

\* a store that holds the publications and nothing else
InitAccessionWrite ==
  /\ db = [t \in StoreTables |-> IF t = "publication" THEN StoredPublications ELSE <<>>]
  /\ nextId = [t \in StoreTables |-> 1]
  /\ lastInsertId = [c \in Conns |-> 0]
  /\ inTxn = [c \in Conns |-> FALSE]
  /\ undo = [c \in Conns |-> <<>>]
  /\ busy = {}
  /\ pc = [w \in Writers |-> "idle"]
  /\ op = [w \in Writers |-> NoOp]
  /\ call = [w \in Writers |-> NoCall]
  /\ prev = [w \in Writers |-> Summary(NoCall)]
  /\ nOps = 0

\* accession.py lines 71-74
accession_cols(a) ==
  [accession |-> a.accession, resource_id |-> a.resource_id, version_id |-> a.version_id,
   url |-> a.url, additional_metadata |-> a.additional_metadata]

\* accession.py line 85
accession_link_cols(a, i) == [accession |-> a.accession, publication_id |-> a.publications[i]]

\* accession.py lines 51-75: the upsert of the accession row
StartAccession(w) ==
  /\ pc[w] = "idle"
  /\ nOps < MaxOps
  /\ \E a \in AccessionInputs, useConn \in BOOLEAN :
       /\ op' = [op EXCEPT ![w] =
                   [NoOp EXCEPT !.kind = "accession_write", !.useConn = useConn,
                                !.status = "run", !.pid = 0, !.r = a]]
       /\ call' = [call EXCEPT ![w] = NewCall("accession", accession_cols(a), TRUE)]
  /\ pc' = [pc EXCEPT ![w] = "connect"]
  /\ nOps' = nOps + 1
  /\ UNCHANGED <<db, nextId, lastInsertId, inTxn, undo, busy, prev>>

\* accession.py lines 78-85: the link to the next publication, or the end
\* of Accession.write
AccessionNext(w) ==
  /\ pc[w] = "returned"
  /\ op[w].kind = "accession_write"
  /\ IF op[w].pid < Len(op[w].r.publications)
     THEN /\ op' = [op EXCEPT ![w].pid = @ + 1]
          /\ call' = [call EXCEPT ![w] =
                        NewCall("accession_publication",
                                accession_link_cols(op[w].r, op[w].pid + 1), TRUE)]
          /\ pc' = [pc EXCEPT ![w] = "connect"]
          /\ UNCHANGED <<busy, inTxn>>
     ELSE EndResource(w, "ok", NULL)
  /\ UNCHANGED <<db, nextId, lastInsertId, undo, prev, nOps>>

\* an insert_into_table of Accession.write raised
AccessionRaised(w) ==
  /\ pc[w] = "raised"
  /\ op[w].kind = "accession_write"
  /\ EndResource(w, "raised", NULL)
  /\ UNCHANGED <<db, nextId, lastInsertId, undo, prev, nOps>>

\* accession.py lines 35-40: Accession(a_obj); a key a_obj lacks gives None
Accession(a) ==
  LET get(k) == IF k \in DOMAIN a THEN a[k] ELSE NULL
  IN  [accession |-> get("accession"), resource_id |-> get("resource_id"),
       version_id |-> get("version_id"), publications |-> get("publications"),
       url |-> get("url"), additional_metadata |-> get("additional_metadata")]

\* fetch_accession({'accession': a}) after the write, through the
\* connection or the engine the write went through
FetchWritten(w) ==
  /\ pc[w] = "idle"
  /\ op[w].kind = "accession_write"
  /\ op[w].status = "ok"
  /\ op[w].phase = "none"
  /\ LET store == IF op[w].useConn THEN db ELSE Committed
         f == fetch_accession(store, [accession |-> {op[w].r.accession}])
     IN  op' = [op EXCEPT ![w].phase = "fetched",
                          ![w].fetched = [shape |-> f.shape, rows |-> f.rows,
                                          objs |-> [i \in 1..Len(f.objs) |->
                                                      Accession(f.objs[i])]]]
  /\ UNCHANGED <<db, nextId, lastInsertId, inTxn, undo, busy, pc, call, prev, nOps>>

\* -------------------------------------------- urls and connection statuses
\* dates are numbered in their order; 200 and 404 are the status codes of
\* the test database
Dates == {1, 2, 3}
StatusRows ==
  {row \in [url_id : {1}, date : Dates, status : {200, 404}, is_online : {NULL, 0, 1},
            is_latest : {0, 1}] :
     row.is_online # NULL => (row.is_online = 1) = (row.status = 200)}

\* stores with url 1, url 2 or both, and connection statuses of url 1: the
\* key (url_id, date) is stored once
InitUrls ==
  /\ \E stored \in SUBSET Dates, U \in (SUBSET {1, 2}) \ {{}} :
       \E pinged \in [stored -> StatusRows] :
         /\ \A d \in stored : pinged[d].date = d
         /\ \E statuses \in SeqsOf({pinged[d] : d \in stored}) :
              db = [t \in StoreTables |->
                      CASE t = "url" -> [i \in 1..Cardinality(U) |->
                                           [id |-> IF 1 \in U THEN i ELSE 2, url |-> 1]]
                        [] t = "connection_status" -> statuses
                        [] OTHER -> <<>>]
  /\ nextId = [t \in StoreTables |-> 1]
  /\ lastInsertId = [c \in Conns |-> 0]
  /\ inTxn = [c \in Conns |-> FALSE]
  /\ undo = [c \in Conns |-> <<>>]
  /\ busy = {}
  /\ pc = [w \in Writers |-> "idle"]
  /\ op = [w \in Writers |-> NoOp]
  /\ call = [w \in Writers |-> NoCall]
  /\ prev = [w \in Writers |-> Summary(NoCall)]
  /\ nOps = 0

\* url.py lines 183-198: a ConnectionStatus built from a row; an is_online
\* that is None is derived from the status code
ConnectionStatus(c) ==
  [url_id |-> c.url_id, status |-> c.status, date |-> c.date, is_latest |-> c.is_latest,
   is_online |-> IF c.is_online = NULL
                 THEN (IF c.status \in {404, 500} THEN 0 ELSE 1)
                 ELSE c.is_online]

\* utils_fetch.py lines 139-160
fetch_connection_status(store, query, order_by) ==
  LET status_raw == select_from_table(store["connection_status"], query, order_by)
  IN  OneOrList([i \in 1..Len(status_raw) |-> ConnectionStatus(status_raw[i])])

\* utils_fetch.py lines 115-118: the statuses of a url, latest first.  With
\* no status row the slice of line 118 is applied to None and raises
\* TypeError
url_status(store, id) ==
  LET status == fetch_connection_status(store, [url_id |-> {id}], <<"is_latest", "date">>)
  IN  [raise |-> status.shape = "None", status |-> Reverse(status.objs)]

\* utils_fetch.py lines 93-122, expanded or not
fetch_url(store, query, order_by, expanded) ==
  LET url_raw == select_from_table(store["url"], query, order_by)
      urls == [i \in 1..Len(url_raw) |->
                 [id |-> url_raw[i].id,
                  status |-> IF expanded THEN url_status(store, url_raw[i].id).status
                             ELSE <<>>]]
  IN  [raise |-> expanded /\ \E i \in 1..Len(url_raw) : url_status(store, url_raw[i].id).raise]
      @@ OneOrList(urls)

\* url.py lines 140-154; NULL stands for None
latest_connection_status(status) ==
  IF Len(status) = 0 THEN NULL
  ELSE IF status[1].is_latest # 1 /\ \E i \in 1..Len(status) : status[i].is_latest = 1
  THEN Min({i \in 1..Len(status) : status[i].is_latest = 1})
  ELSE 1

\* url.py lines 156-163
is_online(status) ==
  LET latest_status == latest_connection_status(status)
  IN  latest_status # NULL /\ Truthy(status[latest_status].is_online)

\* fetch_url({'id': id}) and URL.is_online() of the result
FetchUrl(w) ==
  /\ pc[w] = "idle"
  /\ nOps < MaxOps
  /\ \E id \in {1, 2}, expanded \in BOOLEAN :
       LET f == fetch_url(db, [id |-> {id}], <<"id">>, expanded)
       IN  op' = [op EXCEPT ![w] =
                    [NoOp EXCEPT !.kind = "url", !.phase = "fetched",
                                 !.status = IF f.raise THEN "raised" ELSE "ok",
                                 !.rid = id,
                                 !.fetched =
                                    [expanded |-> expanded] @@
                                    (IF f.raise \/ f.shape = "None" THEN f
                                     ELSE f @@ [is_online |-> is_online(f.objs[1].status)])]]
  /\ nOps' = nOps + 1
  /\ UNCHANGED <<db, nextId, lastInsertId, inTxn, undo, busy, pc, call, prev>>

\* ---------------------------------- ConnectionStatus.write and URL.write
\* the statuses handed to ConnectionStatus.write, as ConnectionStatus.__init__
\* leaves them (url.py lines 183-198)
StatusInputs == [date : {1, 2}, status : {200}, is_online : {1}, is_latest : {0, 1}]

\* the status lists of a URL
StatusLists == {<<>>} \cup {<<c>> : c \in StatusInputs}
                 \cup {<<c1, c2>> : c1 \in StatusInputs, c2 \in {c \in StatusInputs : c.is_latest = 1}}

UrlNames == {1}

\* the url_id values a status can carry: a stored id, or what insert_into_table
\* gave URL.write
UrlIds == NULL .. 3

\* the date of the latest completed write with is_latest set, per url_id
NoLatestWrite == [u \in UrlIds |-> NULL]

\* url.py lines 80-81: self.__dict__ without status
url_cols(u) ==
  [id |-> NULL, url |-> u, url_country |-> NULL, url_coordinates |-> NULL, wayback_url |-> NULL]

\* url.py line 221: self.__dict__ of a ConnectionStatus
status_cols(c, url_id) ==
  [url_id |-> url_id, status |-> c.status, date |-> c.date, is_online |-> c.is_online,
   is_latest |-> c.is_latest]

\* the status the write is at
CurrentStatus(w) == op[w].r.statuses[op[w].pid]

\* what the writes of this writer recorded: the latest writes, and whether
\* every write so far has completed
LatestWrites(w) ==
  IF op[w].kind \in {"status", "url"}
  THEN [op[w].fetched EXCEPT !.clean = @ /\ op[w].status = "ok"]
  ELSE [clean |-> TRUE, date |-> NoLatestWrite]

\* status.write(conn=.., engine=..) of a status of url 1
StartStatus(w) ==
  /\ pc[w] = "idle"
  /\ nOps < MaxOps
  /\ \E c \in StatusInputs, useConn \in BOOLEAN, engine \in BOOLEAN :
       /\ useConn \/ engine
       /\ op' = [op EXCEPT ![w] = [NoOp EXCEPT !.kind = "status", !.useConn = useConn,
                                            !.r = [url |-> NULL, statuses |-> <<c>>,
                                                   engine |-> engine],
                                            !.phase = "flip", !.status = "run",
                                            !.pid = 1, !.rid = 1,
                                            !.fetched = LatestWrites(w)]]
  /\ pc' = [pc EXCEPT ![w] = "flip_status"]
  /\ nOps' = nOps + 1
  /\ UNCHANGED <<db, nextId, lastInsertId, inTxn, undo, busy, call, prev>>

\* url.py lines 79-82: url.write(conn=.., engine=..) starts with the url row
StartUrl(w) ==
  /\ pc[w] = "idle"
  /\ nOps < MaxOps
  /\ \E u \in UrlNames, statuses \in StatusLists, useConn \in BOOLEAN, engine \in BOOLEAN :
       /\ useConn \/ engine
       /\ op' = [op EXCEPT ![w] = [NoOp EXCEPT !.kind = "url", !.useConn = useConn,
                                            !.r = [url |-> u, statuses |-> statuses,
                                                   engine |-> engine],
                                            !.phase = "url", !.status = "run", !.pid = 0,
                                            !.fetched = LatestWrites(w)]]
       /\ call' = [call EXCEPT ![w] = NewCall("url", url_cols(u), TRUE)]
  /\ pc' = [pc EXCEPT ![w] = "connect"]
  /\ nOps' = nOps + 1
  /\ UNCHANGED <<db, nextId, lastInsertId, inTxn, undo, busy, prev>>

\* a flip that leaves every status as it is
StatusFlippedNone(rows, url_id) == rows

\* the rows UPDATE connection_status SET is_latest = 0 WHERE url_id = ..
\* touches
StatusFlipRows(rows, url_id) == {i \in 1..Len(rows) : rows[i].url_id = url_id}

StatusFlipped(rows, url_id) ==
  [i \in 1..Len(rows) |->
     IF i \in StatusFlipRows(rows, url_id) THEN [rows[i] EXCEPT !.is_latest = 0] ELSE rows[i]]

\* the UPDATE waits while an open transaction of another connection holds one
\* of those rows
StatusFlipBlocked(w) ==
  \E i \in StatusFlipRows(db["connection_status"], op[w].rid) :
     \A c \in PoolConns(w) :
        LockedByOther(c, "connection_status",
                      PkOf("connection_status", db["connection_status"][i]))

\* url.py lines 215-221: with is_latest set, clear the flag of the statuses of
\* the url on a connection of the engine and commit; then call
\* insert_into_table for the status
FlipStatus(w) ==
  /\ pc[w] = "flip_status"
  /\ IF Truthy(CurrentStatus(w).is_latest)
     THEN /\ op[w].r.engine
          /\ op[w].rid # NULL
          /\ ~StatusFlipBlocked(w)
          /\ \E lconn \in PoolConns(w) \ busy :
               /\ busy' = busy \cup {lconn}
               /\ op' = [op EXCEPT ![w].lconn = lconn, ![w].phase = "status"]
          /\ db' = [db EXCEPT !["connection_status"] = StatusFlipped(@, op[w].rid)]
     ELSE /\ op' = [op EXCEPT ![w].phase = "status"]
          /\ UNCHANGED <<db, busy>>
  /\ call' = [call EXCEPT ![w] = NewCall("connection_status",
                                         status_cols(CurrentStatus(w), op[w].rid), TRUE)]
  /\ pc' = [pc EXCEPT ![w] = "connect"]
  /\ UNCHANGED <<nextId, lastInsertId, inTxn, undo, prev, nOps>>

\* line 216 without an engine (AttributeError), line 217 for a url_id the
\* store cannot compare with, or a wait for a row lock until the store gives
\* up: the error leaves the write
FlipStatusRaises(w) ==
  /\ pc[w] = "flip_status"
  /\ Truthy(CurrentStatus(w).is_latest)
  /\ ~op[w].r.engine \/ op[w].rid = NULL \/ StatusFlipBlocked(w)
  /\ EndResource(w, "raised", op[w].rid)
  /\ UNCHANGED <<db, nextId, lastInsertId, undo, prev, nOps>>

\* url.py lines 82-87: an insert_into_table returned; the url row gives its
\* id to the statuses, a status with is_latest set is the latest write of its
\* url, and the next status is written
StatusNext(w) ==
  /\ pc[w] = "returned"
  /\ op[w].kind \in {"status", "url"}
  /\ LET rid == IF op[w].pid = 0 THEN call[w].this_id ELSE op[w].rid
         seen == IF op[w].pid > 0 /\ Truthy(CurrentStatus(w).is_latest) /\ rid \in UrlIds
                 THEN [op[w].fetched EXCEPT !.date[rid] = CurrentStatus(w).date]
                 ELSE op[w].fetched
     IN  IF op[w].pid < Len(op[w].r.statuses)
         THEN /\ op' = [op EXCEPT ![w].pid = @ + 1, ![w].rid = rid, ![w].fetched = seen,
                                  ![w].lconn = <<0, 0>>]
              /\ busy' = busy \ {op[w].lconn}
              /\ call' = [call EXCEPT ![w] = NoCall]
              /\ pc' = [pc EXCEPT ![w] = "flip_status"]
              /\ UNCHANGED inTxn
         ELSE /\ busy' = (busy \ Released(call[w])) \ {op[w].lconn}
              /\ inTxn' = IF call[w].conn_created
                          THEN [inTxn EXCEPT ![call[w].conn] = FALSE] ELSE inTxn
              /\ op' = [op EXCEPT ![w].status = "ok", ![w].phase = "none",
                                  ![w].lconn = <<0, 0>>, ![w].rid = rid, ![w].fetched = seen]
              /\ call' = [call EXCEPT ![w] = NoCall]
              /\ pc' = [pc EXCEPT ![w] = "idle"]
  /\ UNCHANGED <<db, nextId, lastInsertId, undo, prev, nOps>>

\* an insert_into_table of the write raised: the error leaves the write
StatusRaised(w) ==
  /\ pc[w] = "raised"
  /\ op[w].kind \in {"status", "url"}
  /\ EndResource(w, "raised", op[w].rid)
  /\ UNCHANGED <<db, nextId, lastInsertId, undo, prev, nOps>>

\* a store with the status of url 1 at date 1, marked latest, committed or
\* not yet written; the caller's connection is inside a transaction it has
\* begun, or not
InitOpen ==
  /\ \E pinged, begun \in BOOLEAN :
       /\ db = [t \in StoreTables |->
                  IF t = "connection_status" /\ pinged
                  THEN <<status_cols([date |-> 1, status |-> 200, is_online |-> 1,
                                      is_latest |-> 1], 1)>>
                  ELSE <<>>]
       /\ inTxn = [c \in Conns |-> c = CallerConn(1) /\ begun]
  /\ nextId = [t \in StoreTables |-> 1]
  /\ lastInsertId = [c \in Conns |-> 0]
  /\ undo = [c \in Conns |-> <<>>]
  /\ busy = {}
  /\ pc = [w \in Writers |-> "idle"]
  /\ op = [w \in Writers |-> NoOp]
  /\ call = [w \in Writers |-> NoCall]
  /\ prev = [w \in Writers |-> Summary(NoCall)]
  /\ nOps = 0

\* ------------------------------------------------------------ the fetchers
\* the rows a store may hold, each stored or not: two urls, each with two
\* statuses or none; two versions; a grant agency and two grants of it; two
\* publications; two resources, resource i with url i and version 1
RowIds == {1, 2}
RowOf(t, i) ==
  CASE t = "url" -> [id |-> i, url |-> i]
    [] t = "version" -> [id |-> i, name |-> i]
    [] t = "grant_agency" -> [id |-> i, name |-> i]
    [] t = "grant" -> [id |-> i, ext_grant_id |-> i, grant_agency_id |-> 1]
    [] t = "publication" ->
         [id |-> i, title |-> ShortText, pubmed_id |-> i, pmc_id |-> i,
          authors |-> ShortText, citation_count |-> 3, keywords |-> NULL]
    [] t = "resource" ->
         [id |-> i, short_name |-> i, url_id |-> i, version_id |-> 1, common_name |-> NULL,
          is_latest |-> 1]

\* the members of a set of numbers, ascending or descending
InOrder(S, descending) ==
  LET some == CHOOSE q \in SeqsOf(S) : TRUE
      up == Column(Ordered([i \in 1..Len(some) |-> [v |-> some[i]]], <<"v">>), "v")
  IN  IF descending THEN Reverse(up) ELSE up

EntityTables == {"url", "version", "grant_agency", "grant", "publication", "resource"}

\* stores that keep their references: a grant has its agency, a resource
\* its url and its version, a status its url
InitFetch ==
  /\ \E stored \in [EntityTables -> SUBSET RowIds], pinged \in SUBSET RowIds,
        descending \in BOOLEAN :
       /\ stored["grant_agency"] \subseteq {1}
       /\ stored["grant"] # {} => 1 \in stored["grant_agency"]
       /\ stored["resource"] \subseteq stored["url"]
       /\ stored["resource"] # {} => 1 \in stored["version"]
       /\ pinged \subseteq stored["url"]
       /\ db = [t \in StoreTables |->
                  IF t \in EntityTables
                  THEN LET ids == InOrder(stored[t], descending)
                       IN  [i \in 1..Len(ids) |-> RowOf(t, ids[i])]
                  ELSE IF t = "connection_status"
                  THEN LET ids == InOrder(pinged, descending)
                       IN  [i \in 1..(2 * Len(ids)) |->
                              [url_id |-> ids[(i + 1) \div 2], date |-> 1 + (i % 2),
                               status |-> 200, is_online |-> 1, is_latest |-> i % 2]]
                  ELSE <<>>]
  /\ nextId = [t \in StoreTables |-> 1]
  /\ lastInsertId = [c \in Conns |-> 0]
  /\ inTxn = [c \in Conns |-> FALSE]
  /\ undo = [c \in Conns |-> <<>>]
  /\ busy = {}
  /\ pc = [w \in Writers |-> "idle"]
  /\ op = [w \in Writers |-> NoOp]
  /\ call = [w \in Writers |-> NoCall]
  /\ prev = [w \in Writers |-> Summary(NoCall)]
  /\ nOps = 0

\* utils_fetch.py lines 176-197 and 304-325: fetch_version and
\* fetch_grant_agency build one object from each row
fetch_leaf(store, t, query, order_by) ==
  [raise |-> FALSE]
  @@ OneOrList(Column(select_from_table(store[t], query, order_by), "id"))

\* utils_fetch.py lines 264-288: Grant (grant.py lines 27-32) raises
\* ValueError for a grant whose agency is not found
fetch_grant(store, query, order_by) ==
  LET grant_raw == select_from_table(store["grant"], query, order_by)
  IN  [raise |-> \E i \in 1..Len(grant_raw) :
                    fetch_leaf(store, "grant_agency",
                               [id |-> {grant_raw[i].grant_agency_id}], <<"id">>).shape
                    = "None"]
      @@ OneOrList(Column(grant_raw, "id"))

\* utils_fetch.py lines 213-247: the grants of a publication are fetched
\* through publication_grant
fetch_publication(store, query, order_by) ==
  LET publication_raw == select_from_table(store["publication"], query, order_by)
      grant_ids(p) == select_from_table(store["publication_grant"],
                                        [publication_id |-> {p.id}], <<>>)
  IN  [raise |-> \E i \in 1..Len(publication_raw) :
                    fetch_grant(store, [id |-> Values(grant_ids(publication_raw[i]),
                                                      "grant_id")], <<"id">>).raise]
      @@ OneOrList(Column(publication_raw, "id"))

\* utils_fetch.py lines 21-60 with the resources a query selects: the url
\* of each is fetched with its statuses, then its version, publications
\* and grants
fetch_resources(store, query, order_by) ==
  LET resource_raw == select_from_table(store["resource"], query, order_by)
      grant_ids(r) == select_from_table(store["resource_grant"],
                                        [resource_id |-> {r.id}], <<>>)
      pub_ids(r) == select_from_table(store["resource_publication"],
                                      [resource_id |-> {r.id}], <<>>)
  IN  [raise |-> \E i \in 1..Len(resource_raw) :
                    \/ fetch_url(store, [id |-> {resource_raw[i].url_id}], <<"id">>,
                                 TRUE).raise
                    \/ fetch_publication(store,
                                         [id |-> Values(pub_ids(resource_raw[i]),
                                                        "publication_id")], <<"id">>).raise
                    \/ fetch_grant(store, [id |-> Values(grant_ids(resource_raw[i]),
                                                         "grant_id")], <<"id">>).raise]
      @@ OneOrList(Column(resource_raw, "id"))

\* the seven fetchers by the table they read; a connection status is
\* listed by its date
Fetchers == EntityTables \cup {"connection_status"}

fetch(store, t, query, order_by) ==
  CASE t = "resource" -> fetch_resources(store, query, order_by)
    [] t = "url" ->
         LET f == fetch_url(store, query, order_by, TRUE)
         IN  [raise |-> f.raise, shape |-> f.shape, objs |-> Column(f.objs, "id")]
    [] t = "connection_status" ->
         LET f == fetch_connection_status(store, query, order_by)
         IN  [raise |-> FALSE, shape |-> f.shape, objs |-> Column(f.objs, "date")]
    [] t = "publication" -> fetch_publication(store, query, order_by)
    [] t = "grant" -> fetch_grant(store, query, order_by)
    [] OTHER -> fetch_leaf(store, t, query, order_by)

\* the default order_by of a fetcher
default_order(t) == IF t = "connection_status" THEN "url_id" ELSE "id"

\* queries by one key, by a list of keys, and the empty query of fetch_all
FetchQueries(t) ==
  {[k \in {} |-> {}]}
  \cup {[k \in {default_order(t)} |-> S] : S \in (SUBSET RowIds) \ {{}}}

FetchAny(w) ==
  /\ pc[w] = "idle"
  /\ nOps < MaxOps
  /\ \E t \in Fetchers :
       \E query \in FetchQueries(t) :
          LET f == fetch(db, t, query, <<default_order(t)>>)
          IN  op' = [op EXCEPT ![w] =
                       [NoOp EXCEPT !.kind = "fetch", !.phase = "fetched",
                                    !.status = IF f.raise THEN "raised" ELSE "ok",
                                    !.fetched = [t |-> t, query |-> query] @@ f]]
  /\ nOps' = nOps + 1
  /\ UNCHANGED <<db, nextId, lastInsertId, inTxn, undo, busy, pc, call, prev>>

\* ------------------------------------------------- Resource.fetch_by_name
\* names are numbered; a resource row with its three names and its flag
Names == {1, 2}
NamedResources ==
  [short_name : Names, common_name : {NULL, 1}, full_name : Names, is_latest : {0, 1}]

\* stores with resource 1, resource 2, both or neither; resource i has url
\* i, pinged once, and version 1
InitNames ==
  /\ \E stored \in SUBSET RowIds : \E named \in [stored -> NamedResources] :
       LET ids == InOrder(stored, FALSE)
       IN  db = [t \in StoreTables |->
                   CASE t = "resource" ->
                          [i \in 1..Len(ids) |->
                             [id |-> ids[i], url_id |-> ids[i], version_id |-> 1]
                             @@ named[ids[i]]]
                     [] t = "url" -> [i \in 1..Len(ids) |-> RowOf("url", ids[i])]
                     [] t = "connection_status" ->
                          [i \in 1..Len(ids) |->
                             [url_id |-> ids[i], date |-> 1, status |-> 200,
                              is_online |-> 1, is_latest |-> 1]]
                     [] t = "version" -> <<RowOf("version", 1)>>
                     [] OTHER -> <<>>]
  /\ nextId = [t \in StoreTables |-> 1]
  /\ lastInsertId = [c \in Conns |-> 0]
  /\ inTxn = [c \in Conns |-> FALSE]
  /\ undo = [c \in Conns |-> <<>>]
  /\ busy = {}
  /\ pc = [w \in Writers |-> "idle"]
  /\ op = [w \in Writers |-> NoOp]
  /\ call = [w \in Writers |-> NoCall]
  /\ prev = [w \in Writers |-> Summary(NoCall)]
  /\ nOps = 0

\* resource.py lines 189-215: three fetches, their results made lists and
\* concatenated, one entry kept for each id; the return is the one
\* resource, the list, or None
fetch_by_name(store, name) ==
  LET by(col) == fetch_resources(store, (col :> {name}) @@ [is_latest |-> {1}], <<"id">>)
      sn_results == by("short_name")
      cn_results == by("common_name")
      fn_results == by("full_name")
      all == sn_results.objs \o cn_results.objs \o fn_results.objs
      combined_results == InRowOrder([i \in 1..Len(all) |-> [id |-> all[i]]], "id")
  IN  [raise |-> sn_results.raise \/ cn_results.raise \/ fn_results.raise]
      @@ OneOrList(combined_results)

FetchByName(w) ==
  /\ pc[w] = "idle"
  /\ nOps < MaxOps
  /\ \E name \in Names :
       LET f == fetch_by_name(db, name)
       IN  op' = [op EXCEPT ![w] =
                    [NoOp EXCEPT !.kind = "fetch_by_name", !.phase = "fetched",
                                 !.status = IF f.raise THEN "raised" ELSE "ok",
                                 !.fetched = [name |-> name] @@ f]]
  /\ nOps' = nOps + 1
  /\ UNCHANGED <<db, nextId, lastInsertId, inTxn, undo, busy, pc, call, prev>>

\* ------------------------------------------------------------------ delete
\* the classes with a delete() method
DeleteKinds ==
  {"resource", "url", "connection_status", "version", "publication", "grant",
   "grant_agency", "accession", "resource_mention"}

DeleteTables ==
  {"resource", "resource_publication", "resource_grant", "url", "connection_status",
   "version", "publication", "publication_grant", "grant", "grant_agency",
   "accession", "accession_publication", "resource_mention"}

\* the row of table t that belongs to entity i: resource i has url i,
\* publication i, grant i, accession i and one mention in publication i
DeleteRow(t, i) ==
  CASE t = "resource" -> [id |-> i, url_id |-> i]
    [] t = "resource_publication" -> [resource_id |-> i, publication_id |-> i]
    [] t = "resource_grant" -> [resource_id |-> i, grant_id |-> i]
    [] t = "publication_grant" -> [publication_id |-> i, grant_id |-> i]
    [] t = "connection_status" -> [url_id |-> i, date |-> 1]
    [] t = "accession" -> [accession |-> i, resource_id |-> i]
    [] t = "accession_publication" -> [accession |-> i, publication_id |-> i]
    [] t = "resource_mention" ->
         [publication_id |-> i, resource_id |-> i, matched_alias |-> 1]
    [] OTHER -> [id |-> i]

\* stores that hold the rows of entity 1, of entity 2, of both or of neither
InitDelete ==
  /\ \E stored \in SUBSET RowIds, descending \in BOOLEAN :
       db = [t \in DeleteTables |->
               LET ids == InOrder(stored, descending)
               IN  [i \in 1..Len(ids) |-> DeleteRow(t, ids[i])]]
  /\ nextId = [t \in DeleteTables |-> 1]
  /\ lastInsertId = [c \in Conns |-> 0]
  /\ inTxn = [c \in Conns |-> FALSE]
  /\ undo = [c \in Conns |-> <<>>]
  /\ busy = {}
  /\ pc = [w \in Writers |-> "idle"]
  /\ op = [w \in Writers |-> NoOp]
  /\ call = [w \in Writers |-> NoCall]
  /\ prev = [w \in Writers |-> Summary(NoCall)]
  /\ nOps = 0

\* an object to delete: its id (url_id for a ConnectionStatus, accession for
\* an Accession, publication.id and resource.id for a ResourceMention) is
\* None, 0 / '' or the key of entity 1 or 2
DeleteKeys == {NULL, 0} \cup RowIds
Entities == [kind : DeleteKinds, key : DeleteKeys]

\* the test each delete() makes before its first statement: 'if not self.id'
\* (url_id, accession). ResourceMention.delete tests self.publication_id and
\* self.resource_id, attributes its objects do not have
delete_check(e) ==
  IF e.kind = "resource_mention" THEN "AttributeError"
  ELSE IF ~Truthy(e.key) THEN "ValueError"
  ELSE "ok"

\* the delete_from_table calls of each delete(), in order; Resource.delete
\* passes through URL.delete for its url
delete_calls(e) ==
  LET del(t, col) == [t |-> t, data |-> (col :> e.key)]
      url_id == IF "url_id" \in DOMAIN e THEN e.url_id ELSE e.key
      url == <<[t |-> "connection_status", data |-> [url_id |-> url_id]],
               [t |-> "url", data |-> [id |-> url_id]]>>
  IN  CASE e.kind = "resource" ->
             <<del("resource_publication", "resource_id"),
               del("resource_grant", "resource_id")>> \o url \o <<del("resource", "id")>>
        [] e.kind = "url" -> url
        [] e.kind = "connection_status" ->
             <<[t |-> "connection_status", data |-> [url_id |-> e.key, date |-> 1]]>>
        [] e.kind = "grant" -> <<del("resource_grant", "grant_id"), del("grant", "id")>>
        [] e.kind = "accession" ->
             <<del("accession_publication", "accession"), del("accession", "accession")>>
        [] e.kind = "resource_mention" ->
             <<[t |-> "resource_mention",
                data |-> [publication_id |-> e.key, resource_id |-> e.key,
                          matched_alias |-> 1]]>>
        [] OTHER -> <<del(e.kind, "id")>>

\* WHERE col = value for every entry of data
DeleteWheres(row, data) == \A c \in DOMAIN data : row[c] = data[c]

\* a delete_from_table that returns the row count whatever the transaction
Deleted(rows, t, data) ==
  LET at == SelectSeq([i \in 1..Len(rows) |-> Len(rows) + 1 - i],
                      LAMBDA i : DeleteWheres(rows[i], data))
      gone == [i \in 1..Len(at) |->
                 [t |-> t, key |-> <<>>, had |-> FALSE, old |-> rows[at[i]], gone |-> TRUE,
                  at |-> at[i]]]
  IN  [rows |-> SelectSeq(rows, LAMBDA row : ~DeleteWheres(row, data)),
       log |-> gone, rowcount |-> Len(gone), status |-> "ok"]

\* delete_from_table(t, data, conn=conn): the reflection leaves the
\* connection inside a transaction, so trans is None; the DELETE runs in
\* that transaction and trans.commit() then raises AttributeError, which
\* the except clause re-raises without a rollback
delete_from_table(rows, t, data) ==
  LET in_transaction == TRUE
      trans == ~in_transaction
      at == SelectSeq([i \in 1..Len(rows) |-> Len(rows) + 1 - i],
                      LAMBDA i : DeleteWheres(rows[i], data))
      gone == [i \in 1..Len(at) |->
                 [t |-> t, key |-> <<>>, had |-> FALSE, old |-> rows[at[i]], gone |-> TRUE,
                  at |-> at[i]]]
  IN  [rows |-> SelectSeq(rows, LAMBDA row : ~DeleteWheres(row, data)),
       log |-> gone,
       rowcount |-> Len(gone),
       status |-> IF trans THEN "ok" ELSE "AttributeError"]

\* the calls of one delete(), up to the first that raises
RECURSIVE delete_all(_, _, _)
delete_all(store, calls, log) ==
  IF calls = <<>> THEN [store |-> store, log |-> log, status |-> "ok"]
  ELSE LET c == Head(calls)
           r == delete_from_table(store[c.t], c.t, c.data)
           after == [store EXCEPT ![c.t] = r.rows]
       IN  IF r.status = "ok" THEN delete_all(after, Tail(calls), log \o r.log)
           ELSE [store |-> after, log |-> log \o r.log, status |-> r.status]

\* obj.delete(conn=conn) or obj.delete(engine=engine), up to the exception
\* or the return
DeleteOf(w, entities) ==
  /\ pc[w] = "idle"
  /\ nOps < MaxOps
  /\ \E e \in entities, useConn \in BOOLEAN :
       \E c \in (IF useConn THEN {CallerConn(w)} ELSE PoolConns(w) \ busy) :
         LET checked == delete_check(e)
             r == IF checked = "ok" THEN delete_all(db, delete_calls(e), <<>>)
                  ELSE [store |-> db, log |-> <<>>, status |-> checked]
         IN  /\ busy' = busy \cup {c}
             /\ db' = r.store
             /\ undo' = [undo EXCEPT ![c] = @ \o r.log]
             /\ inTxn' = [inTxn EXCEPT ![c] = @ \/ checked = "ok"]
             /\ op' = [op EXCEPT ![w] =
                         [NoOp EXCEPT !.kind = "delete", !.useConn = useConn,
                                      !.status = r.status, !.lconn = c,
                                      !.fetched = [e |-> e, before |-> db,
                                                   committed |-> Committed,
                                                   in_transaction |-> inTxn[c]]]]
  /\ pc' = [pc EXCEPT ![w] = IF op'[w].status = "ok" THEN "returned" ELSE "raised"]
  /\ nOps' = nOps + 1
  /\ UNCHANGED <<nextId, lastInsertId, call, prev>>

\* delete() of an object of any of the nine classes
Delete(w) == DeleteOf(w, Entities)

\* resources 1 and 2 with the url they were written with: two resources
\* written with one url string share its row (URL.write upserts on url)
SharingResources == [kind : {"resource"}, key : RowIds, url_id : RowIds]

\* stores as Resource.write leaves them: each resource stored has its url
\* row, pinged or not, and its links
InitShared ==
  /\ \E stored \in (SUBSET RowIds) \ {{}}, urls \in [RowIds -> RowIds],
        pinged \in SUBSET RowIds, linked \in SUBSET RowIds :
       LET ids == InOrder(stored, FALSE)
           used == InOrder({urls[i] : i \in stored}, FALSE)
           Of(S) == InOrder(S \cap stored, FALSE)
       IN  db = [t \in DeleteTables |->
                   CASE t = "resource" ->
                          [i \in 1..Len(ids) |-> [id |-> ids[i], url_id |-> urls[ids[i]]]]
                     [] t = "url" -> [i \in 1..Len(used) |-> DeleteRow("url", used[i])]
                     [] t = "connection_status" ->
                          LET p == InOrder(pinged \cap {urls[i] : i \in stored}, FALSE)
                          IN  [i \in 1..Len(p) |-> DeleteRow("connection_status", p[i])]
                     [] t = "resource_publication" ->
                          [i \in 1..Len(Of(linked)) |->
                             DeleteRow("resource_publication", Of(linked)[i])]
                     [] OTHER -> <<>>]
  /\ nextId = [t \in DeleteTables |-> 1]
  /\ lastInsertId = [c \in Conns |-> 0]
  /\ inTxn = [c \in Conns |-> FALSE]
  /\ undo = [c \in Conns |-> <<>>]
  /\ busy = {}
  /\ pc = [w \in Writers |-> "idle"]
  /\ op = [w \in Writers |-> NoOp]
  /\ call = [w \in Writers |-> NoCall]
  /\ prev = [w \in Writers |-> Summary(NoCall)]
  /\ nOps = 0

\* resource.delete(conn=conn) or resource.delete(engine=engine) of a stored
\* resource, fetched with its url
DeleteResource(w) ==
  DeleteOf(w, {e \in SharingResources :
                 \E i \in 1..Len(db["resource"]) :
                    db["resource"][i].id = e.key /\ db["resource"][i].url_id = e.url_id})

\* delete_from_table(t, {col: key}, conn=conn) or (..., engine=engine) called
\* directly: with conn the DELETE stays in the caller's transaction; a
\* connection opened here is closed in the finally clause, which rolls its
\* open transaction back
DeleteFrom(w) ==
  /\ pc[w] = "idle"
  /\ nOps < MaxOps
  /\ \E t \in DeleteTables, key \in RowIds, useConn \in BOOLEAN :
       \E c \in (IF useConn THEN {CallerConn(w)} ELSE PoolConns(w) \ busy),
          col \in DOMAIN DeleteRow(t, key) :
         LET data == (col :> key)
             r == delete_from_table(db[t], t, data)
             kept == useConn \/ r.status = "ok"
         IN  /\ db' = IF kept THEN [db EXCEPT ![t] = r.rows] ELSE db
             /\ undo' = IF useConn THEN [undo EXCEPT ![c] = @ \o r.log] ELSE undo
             /\ inTxn' = [inTxn EXCEPT ![c] = useConn]
             /\ op' = [op EXCEPT ![w] =
                         [NoOp EXCEPT !.kind = "delete_from", !.useConn = useConn,
                                      !.status = r.status,
                                      !.fetched = [t |-> t, data |-> data, before |-> db,
                                                   committed |-> Committed,
                                                   rowcount |-> r.rowcount,
                                                   in_transaction |-> inTxn[c]]]]
  /\ nOps' = nOps + 1
  /\ UNCHANGED <<nextId, lastInsertId, busy, pc, call, prev>>

\* the caller has the result or the exception; a connection that delete()
\* opened itself is never closed by it and goes back to the pool, rolled
\* back, once nothing refers to it
EndDelete(w) ==
  /\ pc[w] \in {"returned", "raised"}
  /\ op[w].kind = "delete"
  /\ LET c == op[w].lconn
     IN  IF op[w].useConn
         THEN UNCHANGED <<db, undo, inTxn, busy>>
         ELSE /\ db' = RolledBack(db, undo[c])
              /\ undo' = [undo EXCEPT ![c] = <<>>]
              /\ inTxn' = [inTxn EXCEPT ![c] = FALSE]
              /\ busy' = busy \ {c}
  /\ op' = [op EXCEPT ![w] = NoOp]
  /\ pc' = [pc EXCEPT ![w] = "idle"]
  /\ UNCHANGED <<nextId, lastInsertId, call, prev, nOps>>

\* ------------------------------ fetch_resource_mention: the components
\* the publication and resource of the mention rows a store may hold, one
\* alias each; a row names version 1 or version 2
MentionPairs == <<<<1, 1>>, <<1, 2>>, <<2, 1>>>>

\* stores with up to three mention rows; publication 1, resource 1 and
\* version 1 stored or not (a mention can outlive them, see Publication.delete),
\* resource 1 of version 1 or 2 and linked to publication 1 or not
InitMentions ==
  /\ \E named \in [1..Len(MentionPairs) -> {0, 1, 2}], pubs, vers \in {{1, 2}, {2}},
        rv \in {0, 1, 2}, linked \in BOOLEAN :
       LET HasRow(i) == named[i] # 0
           pairs == SelectSeq([i \in 1..Len(MentionPairs) |-> i], HasRow)
       IN  /\ pairs # <<>>
           /\ db = [t \in StoreTables |->
                      CASE t = "resource_mention" ->
                             [i \in 1..Len(pairs) |->
                                [publication_id |-> MentionPairs[pairs[i]][1],
                                 resource_id |-> MentionPairs[pairs[i]][2],
                                 version_id |-> named[pairs[i]], matched_alias |-> 1,
                                 match_count |-> 1, mean_confidence |-> 1]]
                        [] t = "publication" ->
                             [i \in 1..Cardinality(pubs) |->
                                RowOf("publication", InOrder(pubs, FALSE)[i])]
                        [] t = "version" ->
                             [i \in 1..Cardinality(vers) |->
                                RowOf("version", InOrder(vers, FALSE)[i])]
                        [] t = "resource" ->
                             (IF rv = 0 THEN <<>>
                              ELSE <<[RowOf("resource", 1) EXCEPT !.version_id = rv]>>)
                             \o <<RowOf("resource", 2)>>
                        [] t = "resource_publication" ->
                             IF linked THEN <<[resource_id |-> 1, publication_id |-> 1]>>
                             ELSE <<>>
                        [] OTHER -> <<>>]
  /\ nextId = [t \in StoreTables |-> 1]
  /\ lastInsertId = [c \in Conns |-> 0]
  /\ inTxn = [c \in Conns |-> FALSE]
  /\ undo = [c \in Conns |-> <<>>]
  /\ busy = {}
  /\ pc = [w \in Writers |-> "idle"]
  /\ op = [w \in Writers |-> NoOp]
  /\ call = [w \in Writers |-> NoCall]
  /\ prev = [w \in Writers |-> Summary(NoCall)]
  /\ nOps = 0

\* the table behind a cache key "pub:..", "res:..", "ver:.."
ComponentTable(kind) ==
  CASE kind = "pub" -> "publication" [] kind = "res" -> "resource" [] kind = "ver" -> "version"

\* an object is known by the call and the fetch that built it; None is the
\* object of no call
NoObject == [call |-> 0, at |-> 0, group |-> 0, kind |-> "none"]

\* a lookup that never finds its key
NeverInCache(key, cache) == FALSE

\* utils_fetch.py lines 455, 461, 467: key in cache
InCache(key, cache) == key \in DOMAIN cache

\* utils_fetch.py lines 42-48: fetch_resource fetches the version of each
\* resource and, expanded, the publications linked to it
NestedFetches(store, id, expanded) ==
  LET r == select_from_table(store["resource"], [id |-> {id}], <<"id">>)
      pub_ids == select_from_table(store["resource_publication"], [resource_id |-> {id}],
                                   <<>>)
  IN  IF r = <<>> THEN <<>>
      ELSE <<[by |-> "fetch_resource", kind |-> "ver", id |-> r[1].version_id]>>
           \o (IF expanded
               THEN [i \in 1..Len(pub_ids) |->
                       [by |-> "fetch_resource", kind |-> "pub",
                        id |-> pub_ids[i].publication_id]]
               ELSE <<>>)

\* utils_fetch.py lines 455-471: the component of a group, from the cache or
\* fetched from the store and put in the cache (None included); log lists
\* the fetches made
Component(store, kind, id, expanded, n, cache, log) ==
  IF InCache(<<kind, id>>, cache)
  THEN [obj |-> cache[<<kind, id>>], cache |-> cache, log |-> log]
  ELSE LET found == select_from_table(store[ComponentTable(kind)], [id |-> {id}], <<"id">>)
           obj == IF found = <<>> THEN NoObject
                  ELSE [call |-> n, at |-> Len(log) + 1, group |-> 0, kind |-> kind]
       IN  [obj |-> obj,
            cache |-> [k \in DOMAIN cache \cup {<<kind, id>>} |->
                         IF k = <<kind, id>> THEN obj ELSE cache[k]],
            log |-> Append(log, [by |-> "loop", kind |-> kind, id |-> id])
                    \o (IF kind = "res" THEN NestedFetches(store, id, expanded) ELSE <<>>)]

\* resource_mention.py lines 37-39: m.get(..) or a new object of its own
Held(obj, kind, n, group) ==
  IF obj = NoObject THEN [call |-> n, at |-> 0, group |-> group, kind |-> kind] ELSE obj

\* utils_fetch.py lines 452-477: the loop over the groups
RECURSIVE build_mentions(_, _, _, _, _, _, _)
build_mentions(store, order, expanded, n, cache, log, mentions) ==
  IF order = <<>> THEN [log |-> log, mentions |-> mentions]
  ELSE LET key == Head(order)
           group == Len(mentions) + 1
           p == Component(store, "pub", key[1], expanded, n, cache, log)
           r == Component(store, "res", key[2], expanded, n, p.cache, p.log)
           v == Component(store, "ver", key[3], expanded, n, r.cache, r.log)
       IN  build_mentions(store, Tail(order), expanded, n, v.cache, v.log,
                          Append(mentions,
                                 [publication_id |-> key[1], resource_id |-> key[2],
                                  version_id |-> key[3],
                                  publication |-> Held(p.obj, "pub", n, group),
                                  resource |-> Held(r.obj, "res", n, group),
                                  version |-> Held(v.obj, "ver", n, group)]))

\* the objects a call handed out
Components(mentions) ==
  UNION {{mentions[i].publication, mentions[i].resource, mentions[i].version} :
           i \in 1..Len(mentions)}

\* utils_fetch.py lines 414-479: fetch_resource_mention({}) with expanded set
\* or not; the groups are visited in the order the set of their keys gives,
\* and the cache of line 451 starts empty
FetchMentions(w) ==
  /\ pc[w] = "idle"
  /\ nOps < MaxOps
  /\ LET mention_raw == select_from_table(db["resource_mention"], <<>>,
                                          <<"publication_id", "resource_id", "match_count">>)
         group_order == {<<mention_raw[i].publication_id, mention_raw[i].resource_id,
                           mention_raw[i].version_id>> : i \in 1..Len(mention_raw)}
     IN  \E expanded \in BOOLEAN, order \in SeqsOf(group_order) :
           op' = [op EXCEPT ![w] =
                    [NoOp EXCEPT !.kind = "fetch_mentions", !.status = "ok", !.pid = nOps + 1,
                                 !.fetched =
                                    [expanded |-> expanded,
                                     before |-> IF op[w].kind = "fetch_mentions"
                                                THEN Components(op[w].fetched.mentions)
                                                ELSE {}]
                                    @@ build_mentions(db, order, expanded, nOps + 1,
                                                      <<>>, <<>>, <<>>)]]
  /\ nOps' = nOps + 1
  /\ UNCHANGED <<db, nextId, lastInsertId, inTxn, undo, busy, pc, call, prev>>

\* --------------------------------------------------------- specifications
\* one process calling insert_into_table, one call after another
Next ==
  \/ StartInsert(1)
  \/ Connect(1)
  \/ LoopTop(1)
  \/ Execute(1)
  \/ ExecuteRaises(1)
  \/ Commit(1)
  \/ Resolve(1)
  \/ Close(1)
  \/ EndInsert(1)
  \/ CallerCommit(1)
  \/ CallerRollback(1)

Spec == Init /\ [][Next]_vars

\* one process writing resources, one write after another
NextEntity ==
  \/ StartResource(1)
  \/ FlipLatest(1)
  \/ FlipRaises(1)
  \/ Connect(1)
  \/ LoopTop(1)
  \/ Execute(1)
  \/ ExecuteRaises(1)
  \/ Commit(1)
  \/ Resolve(1)
  \/ Close(1)
  \/ ResourceNext(1)
  \/ ResourceRaised(1)
  \/ CallerCommit(1)

SpecEntity == Init /\ [][NextEntity]_vars

\* two processes calling insert_into_table, each on connections of its own
\* engine, in any interleaving
NextRace ==
  \E w \in Writers :
    \/ StartEngineInsert(w)
    \/ Connect(w)
    \/ LoopTop(w)
    \/ Execute(w)
    \/ Commit(w)
    \/ Resolve(w)
    \/ Close(w)
    \/ EndInsert(w)

SpecRace == Init /\ [][NextRace]_vars

\* two processes writing resources through their engines, in any interleaving
NextLatestRace ==
  \E w \in Writers :
    \/ StartEngineResource(w)
    \/ FlipLatest(w)
    \/ Connect(w)
    \/ LoopTop(w)
    \/ Execute(w)
    \/ Commit(w)
    \/ Resolve(w)
    \/ Close(w)
    \/ ResourceNext(w)

SpecLatestRace == Init /\ [][NextLatestRace]_vars

\* one process writing publications: insert_into_table with and without
\* offloading, and Publication.write
NextOffload ==
  \/ StartFilterInsert(1)
  \/ StartPublication(1)
  \/ Connect(1)
  \/ LoopTop(1)
  \/ Execute(1)
  \/ ExecuteRaises(1)
  \/ Commit(1)
  \/ Resolve(1)
  \/ Close(1)
  \/ EndInsert(1)
  \/ EndPublication(1)
  \/ CallerCommit(1)

SpecOffload == InitStore /\ [][NextOffload]_vars

\* a process storing publications directly, writing resources with a
\* publication and a grant, and fetching them back; no statement fails for
\* a reason outside the program
NextRoundTrip ==
  \/ StartFilterInsert(1)
  \/ StartRoundTrip(1)
  \/ FlipLatest(1)
  \/ Connect(1)
  \/ LoopTop(1)
  \/ Execute(1)
  \/ Commit(1)
  \/ Resolve(1)
  \/ Close(1)
  \/ EndInsert(1)
  \/ ResourceNext(1)
  \/ ResourceRaised(1)
  \/ FetchResource(1)
  \/ CallerCommit(1)

SpecRoundTrip == InitStore /\ [][NextRoundTrip]_vars

\* a process storing publications directly, writing resources with or
\* without a publication and a grant, and fetching them back
NextListed ==
  \/ StartFilterInsert(1)
  \/ StartListed(1)
  \/ FlipLatest(1)
  \/ Connect(1)
  \/ LoopTop(1)
  \/ Execute(1)
  \/ Commit(1)
  \/ Resolve(1)
  \/ Close(1)
  \/ EndInsert(1)
  \/ ResourceNext(1)
  \/ ResourceRaised(1)
  \/ FetchResource(1)
  \/ CallerCommit(1)

SpecListed == InitStore /\ [][NextListed]_vars

\* one process writing resource mentions and fetching them back
NextMention ==
  \/ StartMention(1)
  \/ Connect(1)
  \/ LoopTop(1)
  \/ Execute(1)
  \/ ExecuteRaises(1)
  \/ Commit(1)
  \/ Resolve(1)
  \/ Close(1)
  \/ MentionNext(1)
  \/ MentionRaised(1)
  \/ FetchMention(1)
  \/ CallerCommit(1)

SpecMention == InitStore /\ [][NextMention]_vars

\* fetches of accessions from a store that holds some
NextAccession == FetchAccession(1)

SpecAccession == InitAccessions /\ [][NextAccession]_vars

\* fetches of urls from a store that holds some, with their statuses
NextUrl == FetchUrl(1)

SpecUrl == InitUrls /\ [][NextUrl]_vars

\* fetches of every kind from a store that holds some rows
NextFetch == FetchAny(1)

SpecFetch == InitFetch /\ [][NextFetch]_vars

\* deletes of every kind of object, through the caller's connection or the
\* engine, on a store that holds some rows
NextDelete ==
  \/ Delete(1)
  \/ DeleteFrom(1)
  \/ EndDelete(1)
  \/ CallerCommit(1)
  \/ CallerRollback(1)

SpecDelete == InitDelete /\ [][NextDelete]_vars

\* Version.write, one call after another, on the caller's connection or
\* through the engine
NextVersion ==
  \/ StartVersion(1)
  \/ Connect(1)
  \/ LoopTop(1)
  \/ Execute(1)
  \/ ExecuteRaises(1)
  \/ Commit(1)
  \/ Resolve(1)
  \/ Close(1)
  \/ EndInsert(1)
  \/ CallerCommit(1)
  \/ CallerRollback(1)

SpecVersion == InitStore /\ [][NextVersion]_vars

\* Accession.write followed by fetch_accession of the written string
NextAccessionWrite ==
  \/ StartAccession(1)
  \/ Connect(1)
  \/ LoopTop(1)
  \/ Execute(1)
  \/ ExecuteRaises(1)
  \/ Commit(1)
  \/ Resolve(1)
  \/ Close(1)
  \/ AccessionNext(1)
  \/ AccessionRaised(1)
  \/ FetchWritten(1)
  \/ CallerCommit(1)

SpecAccessionWrite == InitAccessionWrite /\ [][NextAccessionWrite]_vars

\* Resource.fetch_by_name on a store that holds some resources
NextNames == FetchByName(1)

SpecNames == InitNames /\ [][NextNames]_vars

\* one process writing urls and connection statuses, one write after another
NextStatus ==
  \/ StartStatus(1)
  \/ StartUrl(1)
  \/ FlipStatus(1)
  \/ FlipStatusRaises(1)
  \/ Connect(1)
  \/ LoopTop(1)
  \/ Execute(1)
  \/ ExecuteRaises(1)
  \/ Commit(1)
  \/ Resolve(1)
  \/ Close(1)
  \/ StatusNext(1)
  \/ StatusRaised(1)
  \/ CallerCommit(1)
  \/ CallerRollback(1)

SpecStatus == InitStore /\ [][NextStatus]_vars

\* one process fetching all resource mentions, one call after another
NextMentions == FetchMentions(1)

SpecMentions == InitMentions /\ [][NextMentions]_vars

\* one process deleting resources that may share a url, one call after
\* another
NextShared ==
  \/ DeleteResource(1)
  \/ EndDelete(1)
  \/ CallerCommit(1)
  \/ CallerRollback(1)

SpecShared == InitShared /\ [][NextShared]_vars

\* one process deleting objects through their delete(), one call after
\* another, and committing or rolling back its connection
NextCascade ==
  \/ Delete(1)
  \/ EndDelete(1)
  \/ CallerCommit(1)
  \/ CallerRollback(1)

SpecCascade == InitDelete /\ [][NextCascade]_vars

\* one process writing urls and connection statuses to a store that may hold
\* a status, on a connection that may be inside a transaction
SpecOpen == InitOpen /\ [][NextStatus]_vars

\* ------------------------------------------------------------- properties
\* the columns that identify a row of t: its unique key, or its primary key
\* where the table has no unique key
KeyCols(t) == IF Len(_get_unique_keys(t)) > 0 THEN _get_unique_keys(t) ELSE _get_primary_keys(t)

Matching(rows, t, d) == {i \in 1..Len(rows) : KeyMatch(rows[i], d, KeyCols(t))}

Latest(rows, short_name) ==
  {i \in 1..Len(rows) : rows[i].short_name = short_name /\ rows[i].is_latest = 1}

PastExecute == {"commit", "resolve", "close", "returned"}

\* C1: when a direct call returns and the call before it, with the same table
\* and the same mapping, had returned, it returns the same id, and exactly one
\* row of the table matches the mapping's key
C1_SameIdTwice ==
  \A w \in Writers :
    (/\ pc[w] = "returned" /\ op[w].kind = "insert"
     /\ prev[w].status = "ok" /\ prev[w].t = call[w].t /\ prev[w].d = call[w].d)
    => /\ call[w].this_id = prev[w].this_id
       /\ Cardinality(Matching(db[call[w].t], call[w].t, call[w].d)) = 1

\* C2: when two writers, each on a connection of its own engine, have both
\* returned from calls with the same table and mapping whose row did not exist
\* when either began, one row matches and both return the same id, the row's
C2_RaceOneRow ==
  (/\ \A w \in Writers : pc[w] = "returned" /\ call[w].nExec = 1
   /\ call[1].t = call[2].t /\ call[1].d = call[2].d
   /\ \A w \in Writers : Matching(call[w].entryDb[call[w].t], call[w].t, call[w].d) = {})
  => /\ Cardinality(Matching(db[call[1].t], call[1].t, call[1].d)) = 1
     /\ call[1].this_id = call[2].this_id
     /\ AutoInc(call[1].t) =>
          \A i \in Matching(db[call[1].t], call[1].t, call[1].d) :
             db[call[1].t][i].id = call[1].this_id

\* C3: when a call on a table with a surrogate key returns and the row
\* existed, the returned id is the id of the stored row matching the unique key
C3_ExistingRowId ==
  \A w \in Writers :
    (pc[w] = "returned" /\ AutoInc(call[w].t) /\ call[w].existed)
    => \E i \in Matching(db[call[w].t], call[w].t, call[w].d) :
          db[call[w].t][i].id = call[w].this_id

\* C4: after a Resource.write with is_latest set has completed, all writes
\* having run one after another, exactly one row with its short_name is marked
\* latest, and it is the row this write stored
C4_OneLatest ==
  \A w \in Writers :
    (/\ pc[w] = "idle" /\ op[w].kind = "resource" /\ op[w].status = "ok"
     /\ Truthy(op[w].r.is_latest))
    => /\ Cardinality(Latest(db["resource"], op[w].r.short_name)) = 1
       /\ \A i \in Latest(db["resource"], op[w].r.short_name) :
            /\ db["resource"][i].id = op[w].rid
            /\ KeyMatch(db["resource"][i], resource_cols(op[w].r), KeyCols("resource"))

C4_Witness ==
  /\ pc[1] = "idle" /\ op[1].kind = "resource" /\ op[1].status = "ok"
  /\ Truthy(op[1].r.is_latest)
  /\ prev[1].status = "ok" /\ Truthy(prev[1].d.is_latest)
  /\ prev[1].d.short_name = op[1].r.short_name
  /\ prev[1].d.version_id # op[1].r.version_id
  /\ Len(db["resource"]) = 2

\* C5: once two interleaved Resource.write calls with is_latest set for one
\* short_name and different versions have both completed, exactly one row
\* with that short_name is marked latest
C5_LatestAfterRace ==
  (/\ \A w \in Writers : pc[w] = "idle" /\ op[w].kind = "resource" /\ op[w].status = "ok"
                          /\ Truthy(op[w].r.is_latest)
   /\ op[1].r.short_name = op[2].r.short_name
   /\ op[1].r.version_id # op[2].r.version_id)
  => Cardinality(Latest(db["resource"], op[1].r.short_name)) = 1

\* C6: a call on a connection the caller supplied never commits and never
\* rolls back, leaves the caller's transaction open with nothing of it
\* committed, executes its statement at most once, and on any error raises
\* from its first attempt
C6_CallerConnUntouched ==
  \A w \in Writers :
    (call[w].status # "none" /\ pc[w] # "connect" /\ ~call[w].conn_created)
    => /\ call[w].nCommit = 0 /\ call[w].nRollback = 0
       /\ call[w].nExec <= 1 /\ call[w].attempts <= 1 /\ call[w].nRetried = 0
       /\ inTxn[call[w].conn]
       /\ Committed = call[w].entryDb
       /\ call[w].nFail > 0 => pc[w] = "raised"

C6_Witness ==
  /\ pc[1] = "raised" /\ ~call[1].conn_created /\ call[1].retry_on_deadlock
  /\ call[1].lastCode = ER_LOCK_DEADLOCK /\ call[1].nExec = 1

\* C7: a call on a connection of its own executes its statement at most
\* max_retries + 1 times; when every attempt failed with a transient lock
\* error it has rolled back each time and raises after exactly
\* max_retries + 1 executions; a successful attempt ends the loop with one
\* commit
C7_BoundedRetries ==
  \A w \in Writers :
    (call[w].status # "none" /\ call[w].conn_created)
    => /\ call[w].attempts <= max_retries + 1
       /\ call[w].nExec <= max_retries + 1
       /\ call[w].nRetried <= max_retries
       /\ (pc[w] = "raised" /\ call[w].retry_on_deadlock
             /\ call[w].nTransient = call[w].nFail)
          => /\ call[w].nExec = max_retries + 1
             /\ call[w].nRetried = max_retries
             /\ call[w].nRollback = call[w].nFail
       /\ pc[w] \in {"resolve", "close", "returned"}
          => /\ call[w].nCommit = 1
             /\ call[w].nExec = call[w].nFail + 1
             /\ undo[call[w].conn] = <<>>

C7_Witness ==
  /\ pc[1] = "raised" /\ call[1].conn_created /\ call[1].retry_on_deadlock
  /\ call[1].nTransient = call[1].nFail
  /\ call[1].nExec = max_retries + 1

\* C8: when a call on a connection of its own raises on an error that is not a
\* transient lock error, or with retry_on_deadlock off, that error was not
\* retried (only transient errors before it were, and none with
\* retry_on_deadlock off), every failure was rolled back, no transaction is
\* left open, and the store is as it was when the call began
C8_OtherErrorRollsBack ==
  \A w \in Writers :
    (/\ pc[w] = "raised" /\ call[w].conn_created
     /\ (call[w].lastCode \notin TransientCodes \/ ~call[w].retry_on_deadlock))
    => /\ call[w].nRetried = call[w].nFail - 1
       /\ call[w].nRetried <= call[w].nTransient
       /\ call[w].lastCode \notin TransientCodes => call[w].nRetried = call[w].nTransient
       /\ ~call[w].retry_on_deadlock => call[w].nExec = 1
       /\ call[w].nRollback = call[w].nFail /\ call[w].nCommit = 0
       /\ ~inTxn[call[w].conn] /\ undo[call[w].conn] = <<>>
       /\ Committed = call[w].entryDb
       /\ db = call[w].entryStore

C8_Witness ==
  /\ pc[1] = "raised" /\ call[1].conn_created /\ call[1].retry_on_deadlock
  /\ call[1].lastCode = CR_SERVER_LOST /\ call[1].nExec = 1

\* C9: a statement that meets a conflicting row is not rejected by the store,
\* and it leaves in that row the supplied non-key non-null values and, in
\* every other column of it and in every other row, what was stored
C9_ConflictFrame ==
  \A w \in Writers :
    /\ (pc[w] = "raised") => call[w].lastCode # ER_TRUNCATED_WRONG_VALUE
    /\ (pc[w] = "commit" /\ call[w].existed)
       => LET t == call[w].t
              d == call[w].d
              before == call[w].execDb[t]
              after == db[t]
              cf == Conflicts(before, t, NewRow(t, d, nextId[t]))
              set == _remove_key_fields(t, d)
          IN  /\ Len(after) = Len(before)
              /\ \A i \in 1..Len(before) :
                   \A col \in Columns(t) :
                      after[i][col] = IF i \in cf /\ col \in DOMAIN set
                                      THEN d[col] ELSE before[i][col]

\* C10: the rows of a junction table have distinct key pairs; a call on a
\* junction table whose pair is stored leaves the table as it was, and the
\* store rejects no statement on a junction table
C10_JunctionIdempotent ==
  /\ \A i, j \in 1..Len(db["resource_grant"]) :
       i # j => PkOf("resource_grant", db["resource_grant"][i])
                  # PkOf("resource_grant", db["resource_grant"][j])
  /\ \A w \in Writers :
       (call[w].status # "none" /\ call[w].t = "resource_grant")
       => /\ (pc[w] \in PastExecute /\ call[w].existed)
             => db["resource_grant"] = call[w].execDb["resource_grant"]
          /\ call[w].lastCode \notin {ER_DUP_ENTRY, ER_TRUNCATED_WRONG_VALUE}

C10_Witness ==
  /\ pc[1] = "returned" /\ call[1].t = "resource_grant" /\ call[1].existed
  /\ op[1].kind = "resource" /\ Len(db["resource_grant"]) >= 1

\* C11: a call that returns after resolving the id of an existing row through
\* the unique-key lookup returns the id of a stored row, never the
\* placeholder 0
C11_NoPlaceholderId ==
  \A w \in Writers :
    (/\ pc[w] = "returned"
     /\ Len(_get_primary_keys(call[w].t)) # 1
     /\ (~Truthy(call[w].inserted_pk) \/ call[w].affected_rows = 0))
    => call[w].this_id # 0

\* C12: Publication.write of a valid publication is not rejected for its
\* mapping; and when a call on publication has returned, the stored row holds,
\* for each overlength text given with filter_long_data set, the token of a
\* long_text row that holds the text, and every other given text as given,
\* no token being stored and no long_text row added with filter_long_data off
C12_OffloadToken ==
  \A w \in Writers :
    /\ (op[w].kind = "publication" /\ pc[w] = "raised")
       => call[w].lastCode # CompileError
    /\ (call[w].t = "publication" /\ pc[w] = "returned")
       => LET g == call[w].given
              long == IF call[w].filter_long_data
                      THEN Range(LongCols("publication", g)) ELSE {}
              rows == db["publication"]
              texts == db["long_text"]
          IN  /\ \E i \in Matching(rows, "publication", g) :
                   \A k \in {"title", "keywords"} :
                      g[k] # NULL =>
                        IF k \in long
                        THEN \E j \in 1..Len(texts) :
                                /\ rows[i][k] = Token(texts[j].id)
                                /\ texts[j].text = g[k]
                        ELSE rows[i][k] = g[k]
              /\ ~call[w].filter_long_data
                 => texts = call[w].entryStore["long_text"]

\* C19: a Publication.write of a publication without title (None or empty),
\* without authors, or with citation_count None ends at once as invalid: it
\* starts no call and leaves the store, the connections and the transactions
\* as they were; with title and authors present a citation_count of 0 passes
\* the validation
LacksField(p) ==
  p.title \in {NULL, 0} \/ p.authors \in {NULL, 0} \/ p.citation_count = NULL

C19_ValidationFirst ==
  [][\A w \in Writers :
       (op'[w] # op[w] /\ op'[w].kind = "publication" /\ op[w].status # "run")
       => IF LacksField(op'[w].r)
          THEN /\ op'[w].status = "invalid"
               /\ pc'[w] = "idle" /\ call'[w] = NoCall
               /\ db' = db /\ nextId' = nextId /\ undo' = undo /\ inTxn' = inTxn
               /\ busy' = busy /\ lastInsertId' = lastInsertId
          ELSE /\ op'[w].status = "run" /\ pc'[w] = "connect"
               /\ call'[w].t = "publication"]_vars

C19_Witness ==
  /\ op[1].kind = "publication" /\ op[1].status = "invalid"
  /\ op[1].r.title = ShortText /\ op[1].r.authors = ShortText
  /\ op[1].r.citation_count = NULL
  /\ Len(db["publication"]) = 1

\* C13: a Resource.write of a resource with one publication and one grant
\* returns an id, and the resource fetched by that id with expanded=True
\* lists exactly that publication (same title) and exactly that grant (same
\* ext_grant_id)
C13_RoundTrip ==
  \A w \in Writers :
     (/\ op[w].kind = "resource"
      /\ op[w].r.pub # NULL
      /\ op[w].r.grant # NULL
      /\ pc[w] = "idle"
      /\ op[w].status # "run") =>
        /\ op[w].status = "ok"
        /\ op[w].phase = "fetched" =>
             /\ op[w].fetched.found
             /\ op[w].fetched.publications = <<op[w].r.pub>>
             /\ op[w].fetched.grants = <<op[w].r.grant>>

\* what the connection of writer w's last operation sees
View(w) == IF op[w].useConn THEN db ELSE Committed

GroupRows(w, o) ==
  LET Test(row) == /\ row.publication_id = o.publication_id
                   /\ row.resource_id = o.resource_id
                   /\ row.version_id = o.version_id
  IN  SelectSeq(select_from_table(op[w].fetched.rows, op[w].fetched.query, <<>>), Test)

\* C16: fetch_resource_mention returns one mention for each (publication_id,
\* resource_id, version_id) of the selected rows; its match_count is the sum
\* of the match counts of the rows of the group and its mean_confidence the
\* unweighted arithmetic mean of their confidences
C16_GroupAggregates ==
  \A w \in Writers :
     (op[w].kind = "mention" /\ op[w].phase = "fetched") =>
        LET objs == op[w].fetched.objs
            selected == select_from_table(op[w].fetched.rows, op[w].fetched.query, <<>>)
            keys == {<<selected[i].publication_id, selected[i].resource_id,
                       selected[i].version_id>> : i \in 1..Len(selected)}
        IN  /\ {<<o.publication_id, o.resource_id, o.version_id>> : o \in objs} = keys
            /\ Cardinality(objs) = Cardinality(keys)
            /\ \A o \in objs :
                 /\ GroupRows(w, o) # <<>>
                 /\ o.match_count = Sum(GroupRows(w, o), "match_count")
                 /\ o.mean_confidence.n > 0
                 /\ o.mean_confidence.sum * Len(GroupRows(w, o))
                      = Sum(GroupRows(w, o), "mean_confidence") * o.mean_confidence.n

\* the mention of the test: counts 2 and 1, confidences 0.9 and 1.0 give
\* the count 3 and the mean 0.95
C16_Witness ==
  \E w \in Writers :
     /\ op[w].kind = "mention"
     /\ op[w].phase = "fetched"
     /\ \E o \in op[w].fetched.objs :
          /\ {<<a.match_count, a.mean_confidence>> : a \in Range(o.matched_aliases)}
               = {<<2, 90>>, <<1, 100>>}
          /\ o.match_count = 3
          /\ o.mean_confidence = [sum |-> 190, n |-> 2]

\* C15: fetch_accession returns one Accession for each distinct accession
\* string of the selected rows, its publications are the distinct
\* publication ids of the rows of that string, and the list is in ascending
\* order of the accession strings
C15_AccessionGroups ==
  \A w \in Writers :
     (op[w].kind = "accession" /\ op[w].phase = "fetched") =>
        LET f == op[w].fetched
            Ids(a) == {f.rows[i].publication_id :
                         i \in {j \in 1..Len(f.rows) : f.rows[j].accession = a}}
        IN  /\ (f.shape = "None") = (f.rows = <<>>)
            /\ Values(f.objs, "accession") = Values(f.rows, "accession")
            /\ \A i, j \in 1..Len(f.objs) :
                 i < j => f.objs[i].accession < f.objs[j].accession
            /\ \A i \in 1..Len(f.objs) :
                 /\ Range(f.objs[i].publications) = Ids(f.objs[i].accession)
                 /\ Len(f.objs[i].publications) = Cardinality(Ids(f.objs[i].accession))

\* the case of the test: two links of one accession string to publications
\* 432 and 789 give one Accession with the two; and a fetch of two
\* accessions whose rows came in descending order of the strings
C15_Witness ==
  \E w \in Writers :
     /\ op[w].kind = "accession"
     /\ op[w].phase = "fetched"
     /\ Len(op[w].fetched.objs) = 2
     /\ op[w].fetched.objs[1].publications = <<432, 789>>
     /\ op[w].fetched.rows[1].accession = 2

\* the stored connection statuses of the url a fetch asked for
StatusesOf(w) ==
  LET Test(row) == row.url_id = op[w].rid
  IN  SelectSeq(db["connection_status"], Test)

\* the most recent of a set of status rows: the greatest date among the
\* rows flagged is_latest, or among all rows when none is flagged
MostRecent(rows) ==
  CHOOSE r \in rows :
     \A q \in rows : /\ q.is_latest = 1 => r.is_latest = 1
                     /\ q.is_latest = r.is_latest => q.date <= r.date

\* C17: for a url with stored connection statuses, fetch_url lists all of
\* them latest-first (the rows flagged is_latest before the others, and by
\* descending date otherwise), and URL.is_online() is the online flag of
\* the most recent of them
C17_LatestFirst ==
  \A w \in Writers :
     (/\ op[w].kind = "url"
      /\ op[w].fetched.expanded
      /\ StatusesOf(w) # <<>>
      /\ \E i \in 1..Len(db["url"]) : db["url"][i].id = op[w].rid) =>
        /\ op[w].status = "ok"
        /\ op[w].fetched.shape = "one"
        /\ LET st == op[w].fetched.objs[1].status
           IN  /\ Len(st) = Len(StatusesOf(w))
               /\ Values(st, "date") = Values(StatusesOf(w), "date")
               /\ \A i, j \in 1..Len(st) :
                    i < j => /\ st[j].is_latest = 1 => st[i].is_latest = 1
                             /\ st[i].is_latest = st[j].is_latest => st[i].date > st[j].date
               /\ op[w].fetched.is_online
                    = (ConnectionStatus(MostRecent(Range(StatusesOf(w)))).is_online = 1)

\* three statuses, the flagged one neither stored last nor the one of the
\* latest date, and offline while the one of the latest date is online
C17_Witness ==
  \E w \in Writers :
     /\ op[w].kind = "url"
     /\ op[w].status = "ok"
     /\ op[w].fetched.expanded
     /\ op[w].fetched.shape = "one"
     /\ Len(op[w].fetched.objs[1].status) = 3
     /\ op[w].fetched.objs[1].status[1].date = 2
     /\ db["connection_status"][1].date = 2
     /\ ~op[w].fetched.is_online
     /\ op[w].fetched.objs[1].status[2].is_online = 1

\* the stored rows a fetch of writer w selects
Selected(w) == select_from_table(db[op[w].fetched.t], op[w].fetched.query, <<>>)

\* C18: each of the seven fetchers returns None when no row matches, one
\* instance when one row matches, and a list with one instance for each row
\* in the order of order_by when several match, and never raises
C18_NoneOneList ==
  \A w \in Writers :
     op[w].kind = "fetch" =>
        LET f == op[w].fetched
            n == Len(Selected(w))
        IN  /\ ~f.raise
            /\ f.shape = (IF n = 0 THEN "None" ELSE IF n = 1 THEN "one" ELSE "list")
            /\ Len(f.objs) = n
            /\ f.t # "connection_status" =>
                 /\ Range(f.objs) = Values(Selected(w), "id")
                 /\ \A i, j \in 1..n : i < j => f.objs[i] < f.objs[j]

\* C20: delete() on a Resource, URL, ConnectionStatus, Version, Publication,
\* Grant, GrantAgency, Accession or ResourceMention whose id or natural key
\* is unset raises the validation error (ValueError) and deletes no row.
C20_UnsetKeyRejected ==
  \A w \in Writers :
    (op[w].kind = "delete" /\ ~Truthy(op[w].fetched.e.key)) =>
       /\ op[w].status = "ValueError"
       /\ db = op[w].fetched.before
       /\ Committed = op[w].fetched.committed

\* the rows of table t that match the equality filter data
DeleteMatching(rows, data) == SelectSeq(rows, LAMBDA row : DeleteWheres(row, data))

\* C21: delete_from_table called on a connection that is already inside a
\* transaction executes the DELETE within that transaction and returns the
\* number of rows deleted, without raising.
C21_ReusesOpenTransaction ==
  \A w \in Writers :
    (op[w].kind = "delete_from" /\ op[w].useConn /\ op[w].fetched.in_transaction) =>
       /\ op[w].status = "ok"
       /\ op[w].fetched.rowcount
            = Len(DeleteMatching(op[w].fetched.before[op[w].fetched.t], op[w].fetched.data))

\* C26: Publication.delete removes the publication row together with its
\* links to grants: once it has deleted the row of a stored publication, no
\* publication_grant row references that publication id.
C26_GrantLinksRemoved ==
  \A w \in Writers :
    LET o == op[w]
        stored(rows) == \E i \in 1..Len(rows) : rows[i].id = o.fetched.e.key
    IN  (/\ o.kind = "delete"
         /\ o.fetched.e.kind = "publication"
         /\ stored(o.fetched.before["publication"])
         /\ ~stored(db["publication"])) =>
           \A i \in 1..Len(db["publication_grant"]) :
              db["publication_grant"][i].publication_id # o.fetched.e.key

\* C22: once a version row exists for a (name, date) pair, no later
\* Version.write, including one with the same name and date but a different
\* user or additional_metadata, changes any column of that row.
C22_VersionImmutable ==
  \A w \in Writers :
    (pc[w] = "returned" /\ call[w].t = "version") =>
       \A i \in 1..Len(call[w].entryStore["version"]) :
          \E j \in 1..Len(db["version"]) :
             db["version"][j] = call[w].entryStore["version"][i]

\* C23: resource mentions are identified per version: a completed write of a
\* mention of the same publication, resource and alias under a different
\* version leaves the earlier version's row (its version_id, match_count
\* and mean_confidence) in the store unchanged.
C23_EarlierVersionKept ==
  \A w \in Writers :
    (op[w].kind = "mention" /\ op[w].status = "ok" /\ pc[w] = "idle") =>
       \A i \in 1..Len(op[w].r.before) :
          op[w].r.before[i].version_id # op[w].r.version_id =>
             \E j \in 1..Len(db["resource_mention"]) :
                db["resource_mention"][j] = op[w].r.before[i]

\* C24: for an Accession written with Accession.write, fetch_accession by
\* its accession string returns one Accession whose accession, resource id,
\* version id, url, additional_metadata and set of publication ids equal
\* those that were written.
C24_AccessionRoundTrip ==
  \A w \in Writers :
    (op[w].kind = "accession_write" /\ op[w].phase = "fetched") =>
       /\ op[w].fetched.shape = "list"
       /\ Len(op[w].fetched.objs) = 1
       /\ LET a == op[w].fetched.objs[1]
              r == op[w].r
          IN  /\ a.accession = r.accession
              /\ a.resource_id = r.resource_id
              /\ a.version_id = r.version_id
              /\ a.url = r.url
              /\ a.additional_metadata = r.additional_metadata
              /\ Range(a.publications) = Range(r.publications)

\* the ids of the stored resources with is_latest = 1 one of whose names is
\* name
Named(name) ==
  {db["resource"][i].id :
     i \in {j \in 1..Len(db["resource"]) :
              /\ db["resource"][j].is_latest = 1
              /\ name \in {db["resource"][j].short_name, db["resource"][j].common_name,
                            db["resource"][j].full_name}}}

\* C25: Resource.fetch_by_name(name) returns a list holding, exactly once
\* each, every resource with is_latest = 1 whose short_name, common_name or
\* full_name equals name; the result is a list also when exactly one
\* resource matches.
C25_ListOfMatches ==
  \A w \in Writers :
    (op[w].kind = "fetch_by_name" /\ Named(op[w].fetched.name) # {}) =>
       /\ op[w].status = "ok"
       /\ op[w].fetched.shape = "list"
       /\ Range(op[w].fetched.objs) = Named(op[w].fetched.name)
       /\ Len(op[w].fetched.objs) = Cardinality(Named(op[w].fetched.name))

\* the statuses of a url marked latest
LatestStatus(rows, url_id) ==
  {i \in 1..Len(rows) : rows[i].url_id = url_id /\ Truthy(rows[i].is_latest)}

\* C27: after ConnectionStatus.write and URL.write calls that ran one after
\* another and all completed, at most one connection_status row of a url is
\* marked latest, and that row is the one the most recent write with is_latest
\* set stored
C27_OneLatestStatus ==
  (pc[1] = "idle" /\ LatestWrites(1).clean)
  => \A u \in UrlIds :
       /\ Cardinality(LatestStatus(db["connection_status"], u)) <= 1
       /\ \A i \in LatestStatus(db["connection_status"], u) :
            db["connection_status"][i].date = LatestWrites(1).date[u]

C27_Witness ==
  /\ pc[1] = "idle" /\ LatestWrites(1).clean /\ nOps = 2
  /\ op[1].kind = "status" /\ Truthy(op[1].r.statuses[1].is_latest)
  /\ Len(db["connection_status"]) = 2
  /\ \E i \in 1..2 : /\ db["connection_status"][i].url_id = 1
                      /\ db["connection_status"][i].date # op[1].r.statuses[1].date
                      /\ db["connection_status"][i].is_latest = 0
  /\ Cardinality(LatestStatus(db["connection_status"], 1)) = 1

\* the step of FlipLatest in which writer w issues the flip statement
FlipStep(w) == pc[w] = "flip" /\ pc'[w] = "connect" /\ Truthy(op[w].r.is_latest)

\* the rows the flip of writer w may clear: those sharing the short_name,
\* except the row the upsert is going to write
OtherRows(w) ==
  FlipRows(db["resource"], op[w].r.short_name)
    \ Matching(db["resource"], "resource", resource_cols(op[w].r))

\* C28: Resource.write with is_latest set issues the flip before the upsert of
\* the resource row (no statement of the upsert has run when the flip does),
\* and the flip changes nothing but is_latest of the other rows sharing the
\* short_name: the row being written and the rows of other short_names are
\* left as they are
C28_FlipOthersOnly ==
  [][\A w \in Writers :
       FlipStep(w)
       => /\ call[w] = NoCall /\ call'[w].t = "resource" /\ call'[w].nExec = 0
          /\ Len(db'["resource"]) = Len(db["resource"])
          /\ \A i \in 1..Len(db["resource"]) :
               IF i \in OtherRows(w)
               THEN db'["resource"][i] = [db["resource"][i] EXCEPT !.is_latest = 0]
               ELSE db'["resource"][i] = db["resource"][i]]_vars

\* C29: when insert_into_table with filter_long_data has returned, every token
\* it put in place of an overlength text names a long_text row that exists
\* and holds that text, whether or not the main statement was rolled back
\* after a deadlock and retried
C29_TokensResolve ==
  \A w \in Writers :
    (pc[w] = "returned" /\ call[w].t = "publication" /\ call[w].filter_long_data)
    => \A k \in Range(LongCols("publication", call[w].given)) :
         \E j \in 1..Len(db["long_text"]) :
            /\ call[w].d[k] = Token(db["long_text"][j].id)
            /\ db["long_text"][j].text = call[w].given[k]

\* the fetches of a call for one cache key, from the loop or from anywhere
Fetches(log, kind, id, bys) ==
  {i \in 1..Len(log) : log[i].kind = kind /\ log[i].id = id /\ log[i].by \in bys}

\* the groups of a call share their components and take none from an earlier
\* call
SharedInCall(w) ==
  LET ms == op[w].fetched.mentions
  IN  /\ \A i, j \in 1..Len(ms) :
           /\ ms[i].publication_id = ms[j].publication_id
              => ms[i].publication = ms[j].publication
           /\ ms[i].resource_id = ms[j].resource_id => ms[i].resource = ms[j].resource
           /\ ms[i].version_id = ms[j].version_id => ms[i].version = ms[j].version
      /\ Components(ms) \cap op[w].fetched.before = {}

\* C30 as stated: within one fetch_resource_mention call each publication,
\* resource and version id is fetched from the store at most once, the groups
\* naming it receive the same object, and nothing fetched by an earlier call
\* is reused
C30_FetchedOnce ==
  \A w \in Writers :
    op[w].kind = "fetch_mentions"
    => /\ \A kind \in {"pub", "res", "ver"}, id \in RowIds :
            Cardinality(Fetches(op[w].fetched.log, kind, id,
                                {"loop", "fetch_resource"})) <= 1
       /\ SharedInCall(w)

\* C30, amended: within one fetch_resource_mention call the loop over the
\* groups fetches each publication, resource and version id at most once (the
\* fetches fetch_resource makes for a resource's own version and publications
\* do not pass through the cache), the groups naming an id the store holds
\* receive the same object, and nothing fetched by an earlier call is reused
C30_LoopFetchedOnce ==
  \A w \in Writers :
    op[w].kind = "fetch_mentions"
    => LET ms == op[w].fetched.mentions
           log == op[w].fetched.log
           Stored(kind, id) == \E i \in 1..Len(db[ComponentTable(kind)]) :
                                  db[ComponentTable(kind)][i].id = id
       IN  /\ \A kind \in {"pub", "res", "ver"}, id \in RowIds :
                Cardinality(Fetches(log, kind, id, {"loop"})) <= 1
           /\ \A i, j \in 1..Len(ms) :
                /\ (ms[i].publication_id = ms[j].publication_id
                    /\ Stored("pub", ms[i].publication_id))
                   => ms[i].publication = ms[j].publication
                /\ (ms[i].resource_id = ms[j].resource_id
                    /\ Stored("res", ms[i].resource_id))
                   => ms[i].resource = ms[j].resource
                /\ (ms[i].version_id = ms[j].version_id /\ Stored("ver", ms[i].version_id))
                   => ms[i].version = ms[j].version
           /\ Components(ms) \cap op[w].fetched.before = {}

\* a second call over three groups of one version and two publications, all
\* stored: one fetch by the loop for each, none taken from the first call
C30_Witness ==
  /\ op[1].kind = "fetch_mentions" /\ nOps = 2
  /\ Len(op[1].fetched.mentions) = 3
  /\ \A i \in 1..3 : /\ op[1].fetched.mentions[i].version_id = 1
                      /\ op[1].fetched.mentions[i].version.call = 2
                      /\ op[1].fetched.mentions[i].publication.at > 0
  /\ Cardinality(Fetches(op[1].fetched.log, "ver", 1, {"loop"})) = 1
  /\ Cardinality(Fetches(op[1].fetched.log, "pub", 1, {"loop"})) = 1
  /\ op[1].fetched.before # {}

\* C31: with more than one group, fetch_resource_mention returns its mentions
\* in the order of the rows of its query: ascending publication_id, then
\* resource_id
C31_GroupsInRowOrder ==
  \A w \in Writers :
    (op[w].kind = "fetch_mentions" /\ Len(op[w].fetched.mentions) > 1)
    => LET ms == op[w].fetched.mentions
       IN  \A i, j \in 1..Len(ms) :
             i < j => \/ ms[i].publication_id < ms[j].publication_id
                      \/ /\ ms[i].publication_id = ms[j].publication_id
                         /\ ms[i].resource_id <= ms[j].resource_id

\* C32: ResourceMention.delete on a mention whose publication and resource
\* have ids returns, having deleted the resource_mention rows of that
\* publication, resource and matched alias and no other row
C32_MentionRowsDeleted ==
  \A w \in Writers :
    LET o == op[w]
    IN  (/\ o.kind = "delete"
         /\ o.fetched.e.kind = "resource_mention"
         /\ Truthy(o.fetched.e.key)) =>
           LET data == [publication_id |-> o.fetched.e.key, resource_id |-> o.fetched.e.key,
                        matched_alias |-> 1]
               Others(row) == ~DeleteWheres(row, data)
           IN  /\ o.status = "ok"
               /\ db["resource_mention"]
                    = SelectSeq(o.fetched.before["resource_mention"], Others)
               /\ \A t \in DeleteTables \ {"resource_mention"} : db[t] = o.fetched.before[t]

\* the url a resource row names is stored
UrlStored(store, row) == \E j \in 1..Len(store["url"]) : store["url"][j].id = row.url_id

Junctions ==
  {<<"resource_publication", "resource_id", "resource", "id">>,
   <<"resource_publication", "publication_id", "publication", "id">>,
   <<"resource_grant", "resource_id", "resource", "id">>,
   <<"resource_grant", "grant_id", "grant", "id">>,
   <<"publication_grant", "publication_id", "publication", "id">>,
   <<"publication_grant", "grant_id", "grant", "id">>,
   <<"accession_publication", "accession", "accession", "accession">>,
   <<"accession_publication", "publication_id", "publication", "id">>}

\* every junction row of the store names rows that exist on both sides
Referenced(store) ==
  \A j \in Junctions :
    \A i \in 1..Len(store[j[1]]) :
      \E k \in 1..Len(store[j[3]]) : store[j[3]][k][j[4]] = store[j[1]][i][j[2]]

\* C34: after any sequence of delete operations on a store whose junction
\* rows name existing rows, every committed row of resource_publication,
\* resource_grant, publication_grant and accession_publication still names
\* rows that exist on both sides
C34_NoOrphanLinks == Referenced(Committed)

C36_FailedWriteKeepsLatest ==
  \A w \in Writers :
    (/\ pc[w] = "idle" /\ op[w].kind = "resource" /\ op[w].status = "raised"
     /\ Truthy(op[w].r.is_latest)
     /\ prev[w].status = "ok" /\ Truthy(prev[w].d.is_latest)
     /\ prev[w].d.short_name = op[w].r.short_name)
    => Latest(db["resource"], op[w].r.short_name) # {}

\* the open transaction of the caller's connection of writer w has written a
\* resource row with the short_name writer w is writing
CallerWroteName(w) ==
  \E i \in 1..Len(undo[CallerConn(w)]) :
     \E j \in FlipRows(db["resource"], op[w].r.short_name) :
        /\ undo[CallerConn(w)][i].t = "resource"
        /\ undo[CallerConn(w)][i].key = PkOf("resource", db["resource"][j])

\* C37: a Resource.write with is_latest set, called with the caller's
\* connection whose open transaction has written a resource row with the same
\* short_name, gets past its flip statement: the flip does not wait for a row
\* lock of that transaction and the write goes on to its upsert
C37_FlipPassesOwnTransaction ==
  [][\A w \in Writers :
       (/\ pc[w] = "flip" /\ op[w].kind = "resource" /\ op[w].useConn
        /\ Truthy(op[w].r.is_latest) /\ CallerWroteName(w))
       => pc'[w] = "connect"]_vars

\* the url ids among ids that have no connection_status row in the store
Unpinged(store, ids) ==
  {id \in ids : \A i \in 1..Len(store["connection_status"]) :
                   store["connection_status"][i].url_id # id}

\* C38: a fetch_url with expanded=True that selects a url without
\* connection_status rows does not raise and returns that url with an empty
\* status list, and a fetch_resource that selects a resource with such a url
\* does not raise
C38_UnpingedUrlFetched ==
  \A w \in Writers :
     LET f == op[w].fetched
     IN  /\ (op[w].kind = "fetch" /\ f.t = "url"
              /\ Unpinged(db, Values(Selected(w), "id")) # {})
             => /\ ~f.raise
                /\ LET u == fetch_url(db, f.query, <<"id">>, TRUE)
                   IN  \A i \in 1..Len(u.objs) :
                          u.objs[i].id \in Unpinged(db, {u.objs[i].id})
                          => u.objs[i].status = <<>>
         /\ (op[w].kind = "fetch" /\ f.t = "resource"
              /\ Unpinged(db, Values(Selected(w), "url_id")) # {})
             => ~f.raise

\* C39: every element of the publications list of a resource fetched with
\* expanded=True is a publication stored and linked to the resource, and
\* every element of its grants list a grant stored and linked to it; a
\* resource without linked publications has no element in its list
C39_ListsHoldLinkedObjects ==
  \A w \in Writers :
     (op[w].kind = "resource" /\ op[w].phase = "fetched" /\ op[w].fetched.found) =>
        LET f == op[w].fetched
            store == View(w)
            Linked(t, links, col, field, v) ==
              \E i \in 1..Len(store[links]) : \E j \in 1..Len(store[t]) :
                 /\ store[links][i].resource_id = op[w].rid
                 /\ store[links][i][col] = store[t][j].id
                 /\ store[t][j][field] = v
        IN  /\ \A i \in 1..Len(f.publications) :
                  Linked("publication", "resource_publication", "publication_id", "title",
                         f.publications[i])
            /\ \A i \in 1..Len(f.grants) :
                  Linked("grant", "resource_grant", "grant_id", "ext_grant_id", f.grants[i])

\* the call before the call of writer w returned and was given the mapping
\* of this call with filter_long_data set: it put a token where this mapping
\* holds an overlength text and stored every other value as given
SameCallBefore(w) ==
  LET g == call[w].given
      long == Range(LongCols("publication", g))
  IN  /\ prev[w].t = "publication" /\ prev[w].status = "ok"
      /\ DOMAIN prev[w].d = DOMAIN g
      /\ \A k \in DOMAIN g :
            IF k \in long THEN prev[w].d[k] >= TokenBase ELSE prev[w].d[k] = g[k]

\* C40: when a call on publication with filter_long_data set and an
\* overlength text has returned, and the call before it was the same call,
\* the second call has added no long_text row and has stored the tokens the
\* first call stored
C40_RepeatedOffloadAddsNothing ==
  \A w \in Writers :
    (/\ call[w].t = "publication" /\ pc[w] = "returned" /\ call[w].filter_long_data
     /\ LongCols("publication", call[w].given) # <<>>
     /\ SameCallBefore(w))
    => /\ db["long_text"] = call[w].entryStore["long_text"]
       /\ call[w].d = prev[w].d

====
